---- MODULE Spec2Model ----
(***************************************************************************)
(* MicroServer: an HTTP/1.1 + WebSocket server for MicroPython.            *)
(*                                                                         *)
(* The module models nine parts of the program as state machines over one  *)
(* state:                                                                  *)
(*   Spec          the connection lifecycle of MicroServer._handle_request *)
(*                 (admission by _conn_semaphore, the keep-alive loop, the *)
(*                 teardown), one task per accepted socket, interleaved at *)
(*                 the await points of the code;                           *)
(*   SpecRouter    Router.add / add_static / match with the tries and the  *)
(*                 not-found cache;                                        *)
(*   SpecPipeline  add_middleware / _get_handler and one request running   *)
(*                 through the chain built by MiddlewarePipeline.build;    *)
(*   SpecWs        one WebSocket connection: the handler task and the      *)
(*                 ping task of websocket.py, with the write lock;         *)
(*   SpecStream    a chunked response body written by _write_chunk;        *)
(*   SpecStatic    the handler of mount_static and send_file;              *)
(*   SpecParse     one connection reading its request line, headers and    *)
(*                 body in _handle_request and _create_request;            *)
(*   SpecSem       tasks entering and leaving one _Semaphore;              *)
(*   SpecQuery     the request target unquoted by _handle_request and      *)
(*                 split into path and query parameters by Request.        *)
(***************************************************************************)
EXTENDS Integers, Sequences, FiniteSets, TLC

(***************************************************************************)
(* Bounds of the model.                                                    *)
(***************************************************************************)
\* sockets the listener may have accepted at the same time
NConns == 2
\* MicroServer(max_conns=...)
MaxConns == 1
\* MicroServer.max_keep_alive_requests
MaxKeepAlive == 3
\* calls of Router.add / Router.add_static in one run
MaxAdds == 3
\* the largest Router(not_found_cache_size=...)
CacheSize == 1
\* calls of _Semaphore.__aenter__ in one run
MaxAcquires == 4
\* calls of MicroServer.add_middleware in one run
MaxMiddlewares == 2
\* calls of WebSocket.receive / send / close a route handler makes
MaxOps == 2
\* chunks a streaming body produces
MaxChunks == 2
\* bytes of a chunk
MaxChunkLen == 16
\* pieces a request target is put together from, after the mount prefix
MaxPieces == 3

Conns == 1..NConns

\* Python's None
None == [none |-> TRUE]

VARIABLES
    \* ---- MicroServer: admission and connections (microserver.py)
    _conn_semaphore,       \* _Semaphore: [_value, _max_value, _waiters]
    _active_connections,   \* self._active_connections
    _warned_capacity,      \* self._warned_capacity
    pc,                    \* per connection task: where it is suspended
    request_count,         \* per connection: local request_count
    keep_alive,            \* per connection: local keep_alive of the current request
    writer,                \* per connection: [closed, sent]: writer.close() called; last response
                           \* written by the running task (kept after a refusal)
    hasRead,               \* per connection: the task has called reader.readline()
    idle,                  \* per connection: the seconds without a request line after
                           \* which the wait_for of line 234 timed out, while the task
                           \* that left the loop that way runs (0 otherwise)
    dispatched,            \* per connection: the running task has called the pipeline
    \* ---- MicroServer: middleware pipeline (microserver.py, middleware.py)
    middlewares,           \* self.middlewares
    _handler,              \* self._handler: None or the cached chain object
    builds,                \* number of chain objects built so far (object identity)
    ret,                   \* value returned by the last direct _get_handler() call
    req,                   \* the request running through the chain, or None
    \* ---- Router (routing.py)
    route_map,             \* Router.route_map
    static_routes,         \* Router.static_routes
    _static_trie,          \* Router._static_trie
    _dyn_tries,            \* Router._dyn_tries
    _not_found_cache,      \* Router._not_found_cache
    _cache_size,           \* Router._cache_size
    result,                \* the Router.match call just made and what it returned; None after any other call
    nadds,                 \* number of add / add_static calls so far
    dyn_routes,            \* history: the (method, pattern) pairs Router.add put in a capture trie
    late,                  \* history: (method, path) added while path was in the not-found cache
    phase,                 \* history: "setup" before the first match call, then "fixed"
                           \* until the next add / add_static, then "changed"
    \* ---- WebSocket: one upgraded connection (websocket.py)
    runtime,               \* "unset", "micropython" or "cpython": the asyncio the program runs on
    closed,                \* WebSocket.closed
    lock,                  \* WebSocket.lock: the set of tasks holding it
    overdue,               \* time.time() - self.last_pong > self.ping_interval * 2
    task,                  \* per task of the connection: where it is suspended
    closing,               \* per task: None, or the close(code) call it is inside
    wire,                  \* the frames handed to writer.write so far
    inflight,              \* the tasks whose frame is written and not yet drained
    sock,                  \* "open", or "closed" once writer.close() was called
    rx,                    \* history: the last receive() call, its frame and its outcome
    ops,                   \* number of WebSocket calls the route handler made so far
    since_pong,            \* the sleeps of _ping_loop that ended since last_pong was
                           \* set (by __init__ or by receive), counted up to 2
    peer,                  \* the peer's side of the keepalive: owed (a ping was written
                           \* and the peer has not sent its pong yet), buffered (a pong
                           \* the peer sent is waiting to be read), late (history: a
                           \* ping was written while the one before was still owed)
    \* ---- one streaming response body (microserver.py, _send_streaming_body)
    body,                  \* the chunks the body has still to produce
    produced,              \* history: the chunks the body produced so far
    out,                   \* the bytes written after the header block
    spc,                   \* "idle", "iter" (in the loop), "done" or "failed"
    \* ---- one request to the handler mount_static installs (microserver.py)
    sfile,                 \* None, or the request: its target, the resolved path, the
                           \* os.stat and open calls made for it, the status answered
    \* ---- one connection read line by line (microserver.py, _handle_request)
    ppc,                   \* where the connection task is suspended
    pcount,                \* request_count
    target,                \* None, or the path of the request line just parsed
    headers,               \* headers, the dict of line 257
    header_count,          \* header_count
    heard,                 \* history of the request being read: the first value of each
                           \* header name, whether the header block ended, the protocol
                           \* error met, the timeout met
    body_read,             \* None, or the body read: Content-Length and bytes returned
    answered,              \* None, or what _send_response wrote last for this request
    request,               \* None, or the Request handed to the pipeline
    upgraded,              \* history of the upgrade: 101 written, ping task, handler called
    pwriter,               \* "open", or "closed" once writer.close() was called
    \* ---- one request target and the Request built from it (http.py)
    qreq,                  \* None, or the target received with the path and the
                           \* query_params of the Request
    \* ---- a _Semaphore shared by tasks that wait for it (microserver.py)
    semaphore,             \* the _Semaphore object; an Event of _waiters is named by
                           \* the task that created it
    sem_pc,                \* per task: "out", "wait" (in event.wait()), "holding"
    event_set,             \* per task: its event was set and the task is runnable
    arrived,               \* history: the tasks suspended in __aenter__, in the order
                           \* they called it
    acquires               \* history: the calls of __aenter__ so far

connVars == <<_conn_semaphore, _active_connections, _warned_capacity, pc,
              request_count, keep_alive, writer, hasRead, idle, dispatched>>
pipeVars == <<middlewares, _handler, builds, ret, req>>
routerVars == <<route_map, static_routes, _static_trie, _dyn_tries,
                _not_found_cache, _cache_size, result, nadds, dyn_routes, late, phase>>
wsVars == <<runtime, closed, lock, overdue, task, closing, wire, inflight, sock, rx, ops,
           since_pong, peer>>
streamVars == <<body, produced, out, spc>>
staticVars == <<sfile>>
parseVars == <<ppc, pcount, target, headers, header_count, heard, body_read,
               answered, request, upgraded, pwriter>>
semVars == <<semaphore, sem_pc, event_set, arrived, acquires>>
queryVars == <<qreq>>
extVars == <<wsVars, streamVars, staticVars, parseVars, semVars, queryVars>>
notWsVars == <<connVars, pipeVars, routerVars, streamVars, staticVars, parseVars, semVars,
               queryVars>>
notStreamVars == <<connVars, pipeVars, routerVars, wsVars, staticVars, parseVars, semVars,
                   queryVars>>
notStaticVars == <<connVars, pipeVars, routerVars, wsVars, streamVars, parseVars, semVars,
                   queryVars>>
notParseVars == <<connVars, pipeVars, routerVars, wsVars, streamVars, staticVars, semVars,
                  queryVars>>
notSemVars == <<connVars, pipeVars, routerVars, wsVars, streamVars, staticVars, parseVars,
                queryVars>>
notQueryVars == <<connVars, pipeVars, routerVars, wsVars, streamVars, staticVars, parseVars,
                  semVars>>
vars == <<connVars, pipeVars, routerVars, extVars>>

(***************************************************************************)
(* MiddlewarePipeline (middleware.py) and the cached chain (microserver.py)*)
(* A chain is the closure build() returns: the final handler, or a         *)
(* wrapped_middleware closing over (middleware, next_handler).             *)
(***************************************************************************)
\* self._dispatch_request, the final handler of the pipeline
FinalHandler == [kind |-> "final"]

\* MiddlewarePipeline._wrap
_wrap(middleware, next_handler) ==
    [kind |-> "wrapped", middleware |-> middleware, next_handler |-> next_handler]

\* reversed(list)
reversed(s) == [i \in 1..Len(s) |-> s[Len(s) + 1 - i]]

\* the loop of MiddlewarePipeline.build over a list already put in iteration order
RECURSIVE FoldWrap(_, _)
FoldWrap(chain, rest) ==
    IF rest = <<>> THEN chain
    ELSE FoldWrap(_wrap(Head(rest), chain), Tail(rest))

\* a plausible slip: the list is folded in insertion order, so the last-added
\* middleware ends up outermost
build_forward(mws) == FoldWrap(FinalHandler, mws)

\* MiddlewarePipeline.build
build(mws) == FoldWrap(FinalHandler, reversed(mws))

\* MicroServer._build_pipeline: a fresh pipeline, every middleware added, build()
_build_pipeline == build(middlewares)

\* MicroServer._get_handler: the value of self._handler after the call (which is
\* also the value returned); a newly built chain is a new object
_get_handler ==
    IF _handler = None
    THEN [id |-> builds + 1, chain |-> _build_pipeline]
    ELSE _handler

\* the number of chain objects built after a _get_handler() call
_get_handler_builds == IF _handler = None THEN builds + 1 ELSE builds

(***************************************************************************)
(* _Semaphore (microserver.py)                                             *)
(***************************************************************************)
\* _Semaphore.__init__
_Semaphore(value) == [_value |-> value, _max_value |-> value, _waiters |-> <<>>]

\* a plausible slip: the test compares with < instead of ==
locked_strict(sem) == sem._value < 0

\* _Semaphore.locked
locked(sem) == sem._value = 0

\* a plausible slip: the slot is taken without counting it
aenter_nodec(sem) == sem

\* _Semaphore.__aenter__ when it does not have to wait.  _handle_request calls
\* it right after locked() returned False, with no suspension point in
\* between, so the wait loop of lines 38-42 is not entered.
aenter(sem) == [sem EXCEPT !._value = @ - 1]

\* _Semaphore.__aexit__
aexit(sem) ==
    [sem EXCEPT !._value = @ + 1,
                !._waiters = IF @ # <<>> THEN Tail(@) ELSE @]

(***************************************************************************)
(* MicroServer._handle_request (microserver.py): one task per accepted     *)
(* socket.  A task runs from one await to the next without interruption;   *)
(* pc[c] names the await the task of connection c is suspended at:         *)
(*   idle          no socket                                               *)
(*   new           accepted, the task has not run yet                      *)
(*   reject_drain  line 214, drain of the 503 written at admission         *)
(*   readline      line 234, the request line                              *)
(*   headers       line 265, the header lines                              *)
(*   body          line 392, the body                                      *)
(*   handler       line 301, the pipeline                                  *)
(*   send          lines 305-309, the response of the pipeline             *)
(*   sleep         line 319                                                *)
(*   send_error    an error response written with keep_alive=False         *)
(*   ws_accept     websocket.py line 60, drain of the 101 response         *)
(*   ws_handler    line 363, the WebSocket route handler                   *)
(*   emfile_send   lines 331-334, the 503 of the EMFILE branch             *)
(*   drain         line 346                                                *)
(*   wait_closed   line 348                                                *)
(*   rejected      the task returned at line 217                           *)
(*   done          the task left the async with block of line 219          *)
(***************************************************************************)
\* what a suspended read or write may raise: OSError with these errno values
\* (ECONNRESET stands for EPIPE too: line 326 treats them alike)
OSErrors == {"ECONNRESET", "EMFILE", "EIO"}

\* statuses a route handler or the dispatcher answers with
HandlerStatuses == {200, 404, 500}

\* the bytes written at lines 211-213
RejectResponse == [status |-> 503, connection |-> "none", retry_after |-> TRUE]

\* the timeout of the wait_for around the readline of the request line
\* (microserver.py line 56), in seconds
_READLINE_TIMEOUT == 2
\* MicroServer.keep_alive_timeout (microserver.py line 91), in seconds
keep_alive_timeout == 5

\* what _send_response writes for a response: the status line, the Connection
\* header and, with it, the Keep-Alive header (lines 417-421)
\* (timeout and max are the numbers written in "Keep-Alive: timeout=...,
\* max=...", 0 when the header is not written)
SentResponse(status, ka, remaining) ==
    [status |-> status,
     connection |-> IF ka THEN "keep-alive" ELSE "close",
     keep_alive_header |-> ka,
     timeout |-> IF ka THEN keep_alive_timeout ELSE 0,
     max |-> IF ka THEN remaining ELSE 0,
     retry_after |-> FALSE]

\* the 101 response WebSocket.accept writes
SwitchingProtocols == [status |-> 101, connection |-> "Upgrade", retry_after |-> FALSE]

\* a socket just accepted: nothing written, not closed
FreshWriter == [closed |-> FALSE, sent |-> None]

\* a plausible slip: the request budget is not looked at
should_keep_alive_always(c) == keep_alive[c]

\* a plausible slip: the budget test is off by one
should_keep_alive_offbyone(c) == keep_alive[c] /\ request_count[c] < MaxKeepAlive

\* line 304
should_keep_alive(c) == keep_alive[c] /\ request_count[c] < MaxKeepAlive - 1

\* a plausible slip: the request being answered is not taken off the budget
requests_remaining_late(c) == MaxKeepAlive - request_count[c]

\* line 308: requests_remaining
requests_remaining(c) == MaxKeepAlive - request_count[c] - 1

\* lines 223-225, evaluated after the increment of line 220
CapacityWarning(n) == n * 10 >= MaxConns * 8 /\ ~_warned_capacity

\* the listener accepts a socket and creates the task (start_server, line 469)
Arrive(c) ==
    /\ pc[c] \in {"idle", "rejected", "done"}
    /\ pc' = [pc EXCEPT ![c] = "new"]
    /\ writer' = [writer EXCEPT ![c] = FreshWriter]
    /\ request_count' = [request_count EXCEPT ![c] = 0]
    /\ keep_alive' = [keep_alive EXCEPT ![c] = FALSE]
    /\ hasRead' = [hasRead EXCEPT ![c] = FALSE]
    /\ idle' = [idle EXCEPT ![c] = 0]
    /\ dispatched' = [dispatched EXCEPT ![c] = FALSE]
    /\ UNCHANGED <<_conn_semaphore, _active_connections, _warned_capacity>>
    /\ UNCHANGED <<pipeVars, routerVars, extVars>>

\* lines 208-214: no free slot, the 503 is written and the task waits in drain
HandleRequestReject(c) ==
    /\ pc[c] = "new"
    /\ locked(_conn_semaphore)
    /\ writer' = [writer EXCEPT ![c].sent = RejectResponse]
    /\ pc' = [pc EXCEPT ![c] = "reject_drain"]
    /\ UNCHANGED <<_conn_semaphore, _active_connections, _warned_capacity,
                   request_count, keep_alive, hasRead, idle, dispatched>>
    /\ UNCHANGED <<pipeVars, routerVars, extVars>>

\* lines 214-217: drain returns or raises; the finally closes the writer either
\* way and the task ends
RejectClose(c) ==
    /\ pc[c] = "reject_drain"
    /\ writer' = [writer EXCEPT ![c].closed = TRUE]
    /\ pc' = [pc EXCEPT ![c] = "rejected"]
    /\ UNCHANGED <<_conn_semaphore, _active_connections, _warned_capacity,
                   request_count, keep_alive, hasRead, idle, dispatched>>
    /\ UNCHANGED <<pipeVars, routerVars, extVars>>

\* lines 208, 219-234: a slot is free; the task takes it, counts itself and
\* suspends in the first readline
HandleRequestAdmit(c) ==
    /\ pc[c] = "new"
    /\ ~locked(_conn_semaphore)
    /\ _conn_semaphore' = aenter(_conn_semaphore)
    /\ _active_connections' = _active_connections + 1
    /\ _warned_capacity' = (_warned_capacity \/ CapacityWarning(_active_connections + 1))
    /\ request_count' = [request_count EXCEPT ![c] = 0]
    /\ pc' = [pc EXCEPT ![c] = "readline"]
    /\ UNCHANGED <<keep_alive, writer, hasRead, idle, dispatched>>
    /\ UNCHANGED <<pipeVars, routerVars, extVars>>

\* the keep-alive loop of line 231 is left for good (break, return, exception):
\* its locals request_count and keep_alive are not read again, and the model
\* forgets them
LeaveLoop(c) ==
    /\ request_count' = [request_count EXCEPT ![c] = 0]
    /\ keep_alive' = [keep_alive EXCEPT ![c] = FALSE]

\* line 344 and the suspension at line 346: every way out of the try block of
\* line 230 (break, return, a caught exception) runs the finally clause, which
\* decrements the counter before its first await
EnterFinally(c) ==
    /\ _active_connections' = _active_connections - 1
    /\ pc' = [pc EXCEPT ![c] = "drain"]
    /\ LeaveLoop(c)

\* lines 321-342: the except clauses.  EMFILE writes a 503 and suspends in its
\* drain; every other exception is logged (or ignored) and falls to the finally
Except(c, e) ==
    IF e = "EMFILE"
    THEN /\ writer' = [writer EXCEPT ![c].sent = SentResponse(503, FALSE, 0)]
         /\ pc' = [pc EXCEPT ![c] = "emfile_send"]
         /\ LeaveLoop(c)
         /\ UNCHANGED _active_connections
    ELSE /\ EnterFinally(c)
         /\ UNCHANGED writer

\* an error response written by _send_response(..., keep_alive=False), the task
\* suspended in its drain (line 431)
SendErrorResponse(c, status) ==
    /\ writer' = [writer EXCEPT ![c].sent = SentResponse(status, FALSE, 0)]
    /\ pc' = [pc EXCEPT ![c] = "send_error"]
    /\ LeaveLoop(c)
    /\ UNCHANGED _active_connections

\* lines 300-301: the cached chain is fetched (built if needed) and awaited
StartDispatch(c) ==
    /\ _handler' = _get_handler
    /\ builds' = _get_handler_builds
    /\ dispatched' = [dispatched EXCEPT ![c] = TRUE]
    /\ pc' = [pc EXCEPT ![c] = "handler"]
    /\ UNCHANGED <<_active_connections, writer>>

\* lines 231-252: the request line arrives, or the wait ends otherwise; the
\* TimeoutError of wait_for is raised when _READLINE_TIMEOUT seconds have passed
\* without a line
ReadLine(c) ==
    /\ pc[c] = "readline"
    /\ hasRead' = [hasRead EXCEPT ![c] = TRUE]
    /\ \E o \in {"timeout", "eof", "too_long", "malformed", "ok"} \cup OSErrors :
       /\ idle' = [idle EXCEPT ![c] = IF o = "timeout" THEN _READLINE_TIMEOUT ELSE 0]
       /\ CASE o \in {"timeout", "eof", "malformed"} ->
                  EnterFinally(c) /\ UNCHANGED writer
           [] o = "too_long" -> SendErrorResponse(c, 414)
           [] o = "ok" ->
                  /\ pc' = [pc EXCEPT ![c] = "headers"]
                  /\ UNCHANGED <<_active_connections, writer, request_count, keep_alive>>
           [] OTHER -> Except(c, o)
    /\ UNCHANGED <<_conn_semaphore, _warned_capacity, dispatched>>
    /\ UNCHANGED <<pipeVars, routerVars, extVars>>

\* lines 256-298 and 353-359, 367-389: the header loop, then, without another
\* suspension, the Connection preference, the WebSocket upgrade and the
\* Content-Length checks of _create_request
\*   upgrade: "none", "ws" (Upgrade: websocket on a WebSocket route, with a key),
\*            "ws_nokey" (the same without Sec-WebSocket-Key)
\*   cl:      Content-Length "absent" (or 0), "invalid", "over" max_body_size, "body"
Headers(c) ==
    /\ pc[c] = "headers"
    /\ \E o \in {"too_many", "too_large", "timeout", "ok"} \cup OSErrors :
         CASE o \in {"too_many", "too_large"} ->
                  /\ SendErrorResponse(c, 431)
                  /\ UNCHANGED <<dispatched, pipeVars>>
           [] o = "timeout" ->
                  /\ EnterFinally(c)
                  /\ UNCHANGED <<writer, dispatched, pipeVars>>
           [] o = "ok" ->
                  (\E ka \in BOOLEAN, upgrade \in {"none", "ws", "ws_nokey"},
                     cl \in {"absent", "invalid", "over", "body"} :
                     CASE upgrade = "ws" ->
                              /\ writer' = [writer EXCEPT ![c].sent = SwitchingProtocols]
                              /\ pc' = [pc EXCEPT ![c] = "ws_accept"]
                              /\ LeaveLoop(c)
                              /\ UNCHANGED <<_active_connections, dispatched, pipeVars>>
                       [] upgrade = "ws_nokey" ->
                              /\ SendErrorResponse(c, 400)
                              /\ UNCHANGED <<dispatched, pipeVars>>
                       [] upgrade = "none" /\ cl = "invalid" ->
                              /\ SendErrorResponse(c, 400)
                              /\ UNCHANGED <<dispatched, pipeVars>>
                       [] upgrade = "none" /\ cl = "over" ->
                              /\ SendErrorResponse(c, 413)
                              /\ UNCHANGED <<dispatched, pipeVars>>
                       [] upgrade = "none" /\ cl = "body" ->
                              /\ keep_alive' = [keep_alive EXCEPT ![c] = ka]
                              /\ pc' = [pc EXCEPT ![c] = "body"]
                              /\ UNCHANGED <<_active_connections, writer, request_count,
                                             dispatched, pipeVars>>
                       [] upgrade = "none" /\ cl = "absent" ->
                              /\ keep_alive' = [keep_alive EXCEPT ![c] = ka]
                              /\ StartDispatch(c)
                              /\ UNCHANGED <<request_count, middlewares, ret, req>>)
           [] OTHER ->
                  /\ Except(c, o)
                  /\ UNCHANGED <<dispatched, pipeVars>>
    /\ UNCHANGED <<_conn_semaphore, _warned_capacity, hasRead, idle>>
    /\ UNCHANGED <<routerVars, extVars>>

\* lines 391-407: the body read returns, times out (408) or raises
Body(c) ==
    /\ pc[c] = "body"
    /\ \E o \in {"ok", "timeout"} \cup OSErrors :
         CASE o = "ok" ->
                  /\ StartDispatch(c)
                  /\ UNCHANGED <<request_count, keep_alive, middlewares, ret, req>>
           [] o = "timeout" ->
                  /\ SendErrorResponse(c, 408)
                  /\ UNCHANGED <<dispatched, pipeVars>>
           [] OTHER ->
                  /\ Except(c, o)
                  /\ UNCHANGED <<dispatched, pipeVars>>
    /\ UNCHANGED <<_conn_semaphore, _warned_capacity, hasRead, idle>>
    /\ UNCHANGED <<routerVars, extVars>>

\* lines 301-309: the pipeline returns a response, which _send_response writes
\* with the Connection header of line 304, or a middleware raises (line 340)
HandlerDone(c) ==
    /\ pc[c] = "handler"
    /\ \/ \E status \in HandlerStatuses :
            /\ writer' = [writer EXCEPT ![c].sent = SentResponse(status, should_keep_alive(c), requests_remaining(c))]
            /\ pc' = [pc EXCEPT ![c] = "send"]
            /\ UNCHANGED <<_active_connections, request_count, keep_alive>>
       \/ Except(c, "Exception")
    /\ UNCHANGED <<_conn_semaphore, _warned_capacity, hasRead, idle, dispatched>>
    /\ UNCHANGED <<pipeVars, routerVars, extVars>>

\* lines 305-319: the response is out (or the write raises); the request is
\* counted and the loop goes on only for a keep-alive response
Send(c) ==
    /\ pc[c] = "send"
    /\ \E o \in {"ok"} \cup OSErrors :
         IF o = "ok"
         THEN /\ IF should_keep_alive(c)
                 THEN /\ request_count' = [request_count EXCEPT ![c] = @ + 1]
                      /\ pc' = [pc EXCEPT ![c] = "sleep"]
                      /\ UNCHANGED <<_active_connections, keep_alive>>
                 ELSE EnterFinally(c)
              /\ UNCHANGED writer
         ELSE Except(c, o)
    /\ UNCHANGED <<_conn_semaphore, _warned_capacity, hasRead, idle, dispatched>>
    /\ UNCHANGED <<pipeVars, routerVars, extVars>>

\* lines 319 and 231: after the yield the loop condition is tested again
Sleep(c) ==
    /\ pc[c] = "sleep"
    /\ IF request_count[c] < MaxKeepAlive
       THEN /\ pc' = [pc EXCEPT ![c] = "readline"]
            /\ UNCHANGED <<_active_connections, request_count, keep_alive>>
       ELSE EnterFinally(c)
    /\ UNCHANGED <<_conn_semaphore, _warned_capacity, writer, hasRead, idle, dispatched>>
    /\ UNCHANGED <<pipeVars, routerVars, extVars>>

\* a plausible slip: the loop goes on after an error response
SendError_continue(c) ==
    /\ pc[c] = "send_error"
    /\ pc' = [pc EXCEPT ![c] = "readline"]
    /\ UNCHANGED <<_conn_semaphore, _active_connections, _warned_capacity,
                   request_count, keep_alive, writer, hasRead, idle, dispatched>>
    /\ UNCHANGED <<pipeVars, routerVars, extVars>>

\* the drain of an error response returns (break / return) or raises
SendError(c) ==
    /\ pc[c] = "send_error"
    /\ \E o \in {"ok"} \cup OSErrors :
         IF o = "ok" THEN EnterFinally(c) /\ UNCHANGED writer ELSE Except(c, o)
    /\ UNCHANGED <<_conn_semaphore, _warned_capacity, hasRead, idle, dispatched>>
    /\ UNCHANGED <<pipeVars, routerVars, extVars>>

\* lines 330-336: the 503 of the EMFILE branch is out, or its write raised and
\* the exception was swallowed
EmfileSend(c) ==
    /\ pc[c] = "emfile_send"
    /\ EnterFinally(c)
    /\ UNCHANGED <<_conn_semaphore, _warned_capacity, writer, hasRead, idle, dispatched>>
    /\ UNCHANGED <<pipeVars, routerVars, extVars>>

\* websocket.py lines 59-65, microserver.py lines 361-363: the 101 is out and the
\* route handler is called, or the write raises
WsAccept(c) ==
    /\ pc[c] = "ws_accept"
    /\ \E o \in {"ok"} \cup OSErrors :
         IF o = "ok"
         THEN /\ pc' = [pc EXCEPT ![c] = "ws_handler"]
              /\ UNCHANGED <<_active_connections, writer, request_count, keep_alive>>
         ELSE Except(c, o)
    /\ UNCHANGED <<_conn_semaphore, _warned_capacity, hasRead, idle, dispatched>>
    /\ UNCHANGED <<pipeVars, routerVars, extVars>>

\* lines 362-365 and 293: the WebSocket handler returns or raises (caught and
\* logged); _handle_request returns
WsHandler(c) ==
    /\ pc[c] = "ws_handler"
    /\ EnterFinally(c)
    /\ UNCHANGED <<_conn_semaphore, _warned_capacity, writer, hasRead, idle, dispatched>>
    /\ UNCHANGED <<pipeVars, routerVars, extVars>>

\* the task of an admitted connection returns: of its writer the model keeps
\* only whether close() was called, and it forgets what the task wrote,
\* whether it dispatched and how long its last wait was
TaskEnds(c) ==
    /\ writer' = [writer EXCEPT ![c].sent = None]
    /\ dispatched' = [dispatched EXCEPT ![c] = FALSE]
    /\ idle' = [idle EXCEPT ![c] = 0]

\* lines 346-347: drain returns, the writer is closed, the task waits for the
\* close to complete
DrainOk(c) ==
    /\ pc[c] = "drain"
    /\ writer' = [writer EXCEPT ![c].closed = TRUE]
    /\ pc' = [pc EXCEPT ![c] = "wait_closed"]
    /\ UNCHANGED <<_conn_semaphore, _active_connections, _warned_capacity,
                   request_count, keep_alive, hasRead, idle, dispatched>>
    /\ UNCHANGED <<pipeVars, routerVars, extVars>>

\* a plausible slip: the slot is released inside the try block, after the
\* drain, so a failing drain keeps it
DrainFails_leak(c) ==
    /\ pc[c] = "drain"
    /\ pc' = [pc EXCEPT ![c] = "done"]
    /\ UNCHANGED <<_conn_semaphore, _active_connections, _warned_capacity,
                   request_count, keep_alive, writer, hasRead, idle, dispatched>>
    /\ UNCHANGED <<pipeVars, routerVars, extVars>>

\* lines 346, 349-351 and the exit of the async with block: drain raises (the peer
\* is gone), the except clause swallows it, lines 347-348 are skipped, the slot
\* is released and the task ends
DrainFails(c) ==
    /\ pc[c] = "drain"
    /\ _conn_semaphore' = aexit(_conn_semaphore)
    /\ pc' = [pc EXCEPT ![c] = "done"]
    /\ TaskEnds(c)
    /\ UNCHANGED <<_active_connections, _warned_capacity,
                   request_count, keep_alive, hasRead>>
    /\ UNCHANGED <<pipeVars, routerVars, extVars>>

\* lines 348-351 and the exit of the async with block: wait_closed returns or
\* raises (swallowed), the slot is released and the task ends
WaitClosed(c) ==
    /\ pc[c] = "wait_closed"
    /\ _conn_semaphore' = aexit(_conn_semaphore)
    /\ pc' = [pc EXCEPT ![c] = "done"]
    /\ TaskEnds(c)
    /\ UNCHANGED <<_active_connections, _warned_capacity,
                   request_count, keep_alive, hasRead>>
    /\ UNCHANGED <<pipeVars, routerVars, extVars>>

(***************************************************************************)
(* The middleware pipeline at work: add_middleware, _get_handler, and one  *)
(* request running through the cached chain.  A middleware is an object    *)
(* called as middleware(request, next_handler); on each call it either     *)
(* awaits next_handler(request) and returns after it (LoggingMiddleware,   *)
(* CORSMiddleware), or returns a response of its own without calling       *)
(* next_handler (CORSMiddleware on OPTIONS).                               *)
(*                                                                         *)
(* req is None or the running request:                                     *)
(*   handler  the chain object _get_handler returned (line 300)            *)
(*   added    history: self.middlewares when the chain was fetched         *)
(*   call     the closure about to be called                               *)
(*   stack    the middlewares suspended in "await next_handler(request)",  *)
(*            innermost last                                               *)
(*   trace    what ran so far: <<"pre", m>>, <<"short", m>>,               *)
(*            <<"dispatch">>, <<"post", m>>                                *)
(*   state    "calling", "returning", "raised" (an exception is on its way *)
(*            out of the chain) or "done"                                  *)
(*   hres     what awaiting the route handler gave _dispatch_request, or   *)
(*            None when no route handler was called                        *)
(*   result   the value returned towards the caller of the chain           *)
(*   raised   None, or the middleware whose code raised                    *)
(*   written  the response handed to _send_response at line 305, or None   *)
(***************************************************************************)
\* a Response object with its status
Response(status) == [kind |-> "Response", status |-> status]

\* what awaiting a route handler gives: a Response, a value of another type
\* (None, a dict, a str ...) or an exception
HandlerResults == {Response(200), [kind |-> "value"], [kind |-> "raise"]}

\* what Router.match gives _dispatch_request: a route handler or None
MatchedHandlers == {None, [fn |-> "handler"]}

\* a plausible slip: the isinstance test of line 195 is missing
_dispatch_request_unchecked(handler, hres) ==
    IF handler = None THEN Response(404)
    ELSE IF hres.kind = "raise" THEN Response(500)
    ELSE hres

\* MicroServer._dispatch_request, from the handler the router matched and what
\* awaiting it gives
_dispatch_request(handler, hres) ==
    IF handler = None THEN Response(404)
    ELSE IF hres.kind = "Response" THEN hres
    ELSE Response(500)

\* the middleware objects an application may add
Middlewares == {"logging", "cors"}

\* a plausible slip: the cached chain survives the registration
add_middleware_stale(m) ==
    /\ Len(middlewares) < MaxMiddlewares
    /\ middlewares' = Append(middlewares, m)
    /\ UNCHANGED <<_handler, builds, ret, req>>
    /\ UNCHANGED <<connVars, routerVars, extVars>>

\* MicroServer.add_middleware
add_middleware(m) ==
    /\ Len(middlewares) < MaxMiddlewares
    /\ middlewares' = Append(middlewares, m)
    /\ _handler' = None
    /\ UNCHANGED <<builds, ret, req>>
    /\ UNCHANGED <<connVars, routerVars, extVars>>

\* a direct call of MicroServer._get_handler (test_functional.py, test 5)
GetHandlerCall ==
    /\ _handler' = _get_handler
    /\ builds' = _get_handler_builds
    /\ ret' = _get_handler
    /\ UNCHANGED <<middlewares, req>>
    /\ UNCHANGED <<connVars, routerVars, extVars>>

\* microserver.py lines 300-301: a request fetches the chain and calls it
StartRequest ==
    /\ IF req = None THEN TRUE ELSE req.state = "done"
    /\ _handler' = _get_handler
    /\ builds' = _get_handler_builds
    /\ req' = [handler |-> _get_handler, added |-> middlewares,
               call |-> _get_handler.chain, stack |-> <<>>, trace |-> <<>>,
               state |-> "calling", hres |-> None, result |-> None,
               raised |-> None, written |-> None]
    /\ UNCHANGED <<middlewares, ret>>
    /\ UNCHANGED <<connVars, routerVars, extVars>>

\* middleware.py lines 91-92, then the middleware's code up to its
\* "await next_handler(request)"
MiddlewareCallsNext ==
    /\ req # None /\ req.state = "calling" /\ req.call.kind = "wrapped"
    /\ req' = [req EXCEPT !.trace = Append(@, <<"pre", req.call.middleware>>),
                          !.stack = Append(@, req.call.middleware),
                          !.call = req.call.next_handler]
    /\ UNCHANGED <<middlewares, _handler, builds, ret>>
    /\ UNCHANGED <<connVars, routerVars, extVars>>

\* middleware.py lines 91-92, then a middleware that returns a response of its
\* own (lines 31-32)
MiddlewareShortCircuits ==
    /\ req # None /\ req.state = "calling" /\ req.call.kind = "wrapped"
    /\ req' = [req EXCEPT !.trace = Append(@, <<"short", req.call.middleware>>),
                          !.result = Response(204),
                          !.state = "returning"]
    /\ UNCHANGED <<middlewares, _handler, builds, ret>>
    /\ UNCHANGED <<connVars, routerVars, extVars>>

\* the innermost closure is the final handler, self._dispatch_request
TerminalDispatch ==
    /\ req # None /\ req.state = "calling" /\ req.call.kind = "final"
    /\ \E handler \in MatchedHandlers, hres \in HandlerResults :
         req' = [req EXCEPT !.trace = Append(@, <<"dispatch">>),
                            !.hres = IF handler = None THEN None ELSE hres,
                            !.result = _dispatch_request(handler, hres),
                            !.state = "returning"]
    /\ UNCHANGED <<middlewares, _handler, builds, ret>>
    /\ UNCHANGED <<connVars, routerVars, extVars>>

\* next_handler returned: the innermost suspended middleware runs the code after
\* its await (middleware.py lines 37-40, 52-73) and returns
MiddlewareReturns ==
    /\ req # None /\ req.state = "returning" /\ req.stack # <<>>
    /\ req' = [req EXCEPT !.trace = Append(@, <<"post", req.stack[Len(req.stack)]>>),
                          !.stack = SubSeq(@, 1, Len(@) - 1)]
    /\ UNCHANGED <<middlewares, _handler, builds, ret>>
    /\ UNCHANGED <<connVars, routerVars, extVars>>

\* the code of a middleware raises, before or after its await; no middleware
\* of the chain catches, so the exception leaves the chain
MiddlewareRaises ==
    /\ req # None
    /\ \/ /\ req.state = "calling" /\ req.call.kind = "wrapped"
          /\ req' = [req EXCEPT !.raised = [by |-> req.call.middleware],
                                !.result = None,
                                !.state = "raised"]
       \/ /\ req.state = "returning" /\ req.stack # <<>>
          /\ req' = [req EXCEPT !.raised = [by |-> req.stack[Len(req.stack)]],
                                !.result = None,
                                !.state = "raised"]
    /\ UNCHANGED <<middlewares, _handler, builds, ret>>
    /\ UNCHANGED <<connVars, routerVars, extVars>>

\* the outermost closure returned: "response = await handler(request)" is over
\* and the response goes to _send_response (microserver.py lines 301-309)
FinishRequest ==
    /\ req # None /\ req.state = "returning" /\ req.stack = <<>>
    /\ req' = [req EXCEPT !.written = req.result, !.state = "done"]
    /\ UNCHANGED <<middlewares, _handler, builds, ret>>
    /\ UNCHANGED <<connVars, routerVars, extVars>>

\* the exception reaches _handle_request: "except Exception" (microserver.py
\* lines 340-342) logs it and the finally clause follows; nothing is written
PipelineRaised ==
    /\ req # None /\ req.state = "raised"
    /\ req' = [req EXCEPT !.state = "done"]
    /\ UNCHANGED <<middlewares, _handler, builds, ret>>
    /\ UNCHANGED <<connVars, routerVars, extVars>>

(***************************************************************************)
(* Router (routing.py).  A path or pattern is a Python str, modelled as    *)
(* the sequence of its characters.  A trie is the tree of dicts the code   *)
(* builds, written as a function from the position of a node (the sequence *)
(* of edges from the root) to the node's own fields: an edge is            *)
(* <<"c", part>> for children[part] and <<"p">> for node["p"].             *)
(***************************************************************************)
\* a Python str with a value (a handler is an object, a name is a str; both may
\* be None)
Str(chars) == [str |-> chars]

\* the empty dict
EmptyDict == [k \in {} |-> None]

\* x in s, for a character x and a str s
Contains(s, x) == \E i \in 1..Len(s) : s[i] = x

\* str.split("/")
RECURSIVE SplitSlash(_, _, _)
SplitSlash(s, acc, cur) ==
    IF s = <<>> THEN Append(acc, cur)
    ELSE IF Head(s) = "/" THEN SplitSlash(Tail(s), Append(acc, cur), <<>>)
    ELSE SplitSlash(Tail(s), acc, Append(cur, Head(s)))

\* _StaticTrie._parts and _RouteTrie._parts (the same code)
_parts(path) ==
    IF path = <<>> \/ path = <<"/">> THEN <<>>
    ELSE LET p1 == IF path[1] = "/" THEN Tail(path) ELSE path
             p2 == IF p1 # <<>> /\ p1[Len(p1)] = "/" THEN SubSeq(p1, 1, Len(p1) - 1) ELSE p1
         IN IF p2 # <<>> THEN SplitSlash(p2, <<>>, <<>>) ELSE <<>>

\* _StaticTrie.__init__: the root node
StaticTrieInit == (<<>> :> [h |-> None])

\* _StaticTrie.add, from the node at key on
RECURSIVE StaticTrieAdd(_, _, _, _)
StaticTrieAdd(trie, key, parts, handler) ==
    IF parts = <<>> THEN [trie EXCEPT ![key].h = handler]
    ELSE LET child == Append(key, <<"c", Head(parts)>>)
             t1 == IF child \in DOMAIN trie THEN trie ELSE (child :> [h |-> None]) @@ trie
         IN StaticTrieAdd(t1, child, Tail(parts), handler)

\* _StaticTrie.match, from the node at key on
RECURSIVE StaticTrieMatch(_, _, _, _)
StaticTrieMatch(trie, key, parts, last_handler) ==
    IF parts = <<>> THEN last_handler
    ELSE LET child == Append(key, <<"c", Head(parts)>>)
         IN IF child \notin DOMAIN trie THEN last_handler
            ELSE StaticTrieMatch(trie, child, Tail(parts),
                                 IF trie[child].h # None THEN trie[child].h ELSE last_handler)

\* _RouteTrie.__init__: the root node
EmptyRouteNode == [h |-> None, pn |-> None]
RouteTrieInit == (<<>> :> EmptyRouteNode)

\* part.startswith("<") and part.endswith(">")
IsCapture(part) == part # <<>> /\ part[1] = "<" /\ part[Len(part)] = ">"

\* part[1:-1]
param_name(part) == SubSeq(part, 2, Len(part) - 1)

\* _RouteTrie.add, from the node at key on
RECURSIVE RouteTrieAdd(_, _, _, _)
RouteTrieAdd(trie, key, parts, handler) ==
    IF parts = <<>> THEN [trie EXCEPT ![key].h = handler]
    ELSE LET part == Head(parts)
         IN IF IsCapture(part)
            THEN LET child == Append(key, <<"p">>)
                     t1 == IF child \in DOMAIN trie THEN trie
                           ELSE (child :> EmptyRouteNode) @@ trie
                     t2 == [t1 EXCEPT ![key].pn = Str(param_name(part))]
                 IN RouteTrieAdd(t2, child, Tail(parts), handler)
            ELSE LET child == Append(key, <<"c", part>>)
                     t1 == IF child \in DOMAIN trie THEN trie
                           ELSE (child :> EmptyRouteNode) @@ trie
                 IN RouteTrieAdd(t1, child, Tail(parts), handler)

\* _RouteTrie.match, from the node at key on: None, or [handler, params]
RECURSIVE RouteTrieMatch(_, _, _, _)
RouteTrieMatch(trie, key, parts, params) ==
    IF parts = <<>>
    THEN IF trie[key].h # None THEN [handler |-> trie[key].h, params |-> params] ELSE None
    ELSE LET part == Head(parts)
             lit == Append(key, <<"c", part>>)
             cap == Append(key, <<"p">>)
         IN IF lit \in DOMAIN trie
            THEN RouteTrieMatch(trie, lit, Tail(parts), params)
            ELSE IF cap \in DOMAIN trie
            THEN RouteTrieMatch(trie, cap, Tail(parts),
                                IF trie[key].pn # None
                                THEN (trie[key].pn.str :> part) @@ params
                                ELSE params)
            ELSE None

\* the result (None, None) of Router.match and Router._internal_match
NoMatch == [handler |-> None, params |-> None]

\* Router._internal_match
_internal_match(method, path) ==
    IF <<method, path>> \in DOMAIN route_map
    THEN [handler |-> route_map[<<method, path>>], params |-> EmptyDict]
    ELSE LET st == StaticTrieMatch(_static_trie, <<>>, _parts(path), None)
         IN IF st # None THEN [handler |-> st, params |-> EmptyDict]
            ELSE IF method \in DOMAIN _dyn_tries
            THEN LET matched == RouteTrieMatch(_dyn_tries[method], <<>>, _parts(path), EmptyDict)
                 IN IF matched # None THEN matched ELSE NoMatch
            ELSE NoMatch

\* the handler object an application registers for a route: one per route
HandlerOf(kind, method, path) == [fn |-> <<kind, method, path>>]

\* what the application registers and requests
Methods == {"GET", "POST"}
ExactPaths == { <<"/", "u", "/", "1", "/", "p">>, <<"/", "x">> }
DynPatterns == { <<"/", "u", "/", "<", "i", "d", ">", "/", "p">>,
                 <<"/", "u", "/", "<", "u", "i", "d", ">", "/", "c">>,
                 <<"/", "u", "/", "1", "/", "<", "k", ">", "/", "z">> }
StaticPrefixes == { <<"/">>, <<"/", "u">>, <<"/", "u", "/", "1">> }
RequestPaths == { <<"/", "u", "/", "1", "/", "p">>,
                  <<"/", "u", "/", "1", "/", "c">>,
                  <<"/", "x">> }

\* Router.add
RouterAdd(method, path) ==
    /\ nadds < MaxAdds
    /\ nadds' = nadds + 1
    /\ LET handler == HandlerOf("route", method, path)
       IN IF Contains(path, "<") /\ Contains(path, ">")
          THEN /\ LET trie == IF method \in DOMAIN _dyn_tries
                              THEN _dyn_tries[method] ELSE RouteTrieInit
                  IN _dyn_tries' = (method :> RouteTrieAdd(trie, <<>>, _parts(path), handler))
                                       @@ _dyn_tries
               /\ dyn_routes' = dyn_routes \cup {<<method, path>>}
               /\ UNCHANGED route_map
          ELSE /\ route_map' = (<<method, path>> :> handler) @@ route_map
               /\ UNCHANGED <<_dyn_tries, dyn_routes>>
    /\ late' = IF path \in _not_found_cache THEN late \cup {<<method, path>>} ELSE late
    /\ phase' = (IF phase = "setup" THEN "setup" ELSE "changed")
    /\ result' = None
    /\ UNCHANGED <<static_routes, _static_trie, _not_found_cache, _cache_size>>
    /\ UNCHANGED <<connVars, pipeVars, extVars>>

\* Router.add_static
RouterAddStatic(url_path) ==
    /\ nadds < MaxAdds
    /\ nadds' = nadds + 1
    /\ LET handler == HandlerOf("static", "*", url_path)
       IN /\ static_routes' = Append(static_routes, <<url_path, handler>>)
          /\ _static_trie' = StaticTrieAdd(_static_trie, <<>>, _parts(url_path), handler)
    /\ phase' = (IF phase = "setup" THEN "setup" ELSE "changed")
    /\ result' = None
    /\ UNCHANGED <<route_map, _dyn_tries, _not_found_cache, _cache_size, dyn_routes, late>>
    /\ UNCHANGED <<connVars, pipeVars, extVars>>

\* Router.match; set.pop() removes an arbitrary element
RouterMatch(method, path) ==
    /\ IF path \in _not_found_cache
       THEN /\ result' = [method |-> method, path |-> path, ret |-> NoMatch]
            /\ UNCHANGED _not_found_cache
       ELSE LET found == _internal_match(method, path)
            IN IF found.handler # None
               THEN /\ result' = [method |-> method, path |-> path, ret |-> found]
                    /\ UNCHANGED _not_found_cache
               ELSE /\ result' = [method |-> method, path |-> path, ret |-> NoMatch]
                    /\ IF Cardinality(_not_found_cache) >= _cache_size /\ _not_found_cache # {}
                       THEN \E victim \in _not_found_cache :
                                _not_found_cache' = (_not_found_cache \ {victim}) \cup {path}
                       ELSE _not_found_cache' = _not_found_cache \cup {path}
    /\ phase' = (IF phase = "setup" THEN "fixed" ELSE phase)
    /\ UNCHANGED <<route_map, static_routes, _static_trie, _dyn_tries, nadds,
                   _cache_size, dyn_routes, late>>
    /\ UNCHANGED <<connVars, pipeVars, extVars>>

(***************************************************************************)
(* WebSocket (websocket.py): one upgraded connection.  Two tasks act on    *)
(* the WebSocket object: "conn", the connection task, which runs the route *)
(* handler inside _handle_websocket and then the teardown of               *)
(* _handle_request, and "ping", the task accept() creates for _ping_loop.  *)
(* task[t] names the await a task is suspended at:                         *)
(*   conn: off (not upgraded yet), handler (in the route handler, between  *)
(*         WebSocket calls), rx_read (receive, lines 103-134), pong_lock / *)
(*         pong_drain (lines 149-154), tx_lock / tx_drain (send, lines     *)
(*         88-92), cl_await_ping (close, line 187), fin_drain /            *)
(*         fin_wait_closed (microserver.py lines 346-348), ended           *)
(*   ping: none (not created), sleep (line 24), ping_lock / ping_drain     *)
(*         (lines 30-32), done (returned), cancelled (ended by             *)
(*         CancelledError)                                                 *)
(*   both, inside close(): cl_lock / cl_drain (lines 199-203), cl_wait     *)
(*         (line 207), cl_wait_closed (line 215)                           *)
(* CancelledError derives from BaseException on both runtimes, so no       *)
(* "except Exception" clause of the program catches it.                    *)
(***************************************************************************)
Tasks == {"conn", "ping"}

\* the asyncio implementations the program is run on: MicroPython's (the
\* target) and CPython's (installed as uasyncio by test_micropython_compat.py)
Runtimes == {"micropython", "cpython"}

\* a frame handed to the writer: its kind and, for a close frame, its code
Frame(kind, code) == [kind |-> kind, code |-> code]

\* what receive() may find on the reader: end of stream, a read error, or a
\* frame: with a reserved bit set, longer than MAX_FRAME_SIZE, or by opcode
FramesRead == {"eof", "error", "rsv", "toolarge", "pong", "ping", "close",
               "text", "unknown"}

\* a plausible slip: the writes are not serialized
lock_locked_never(l) == FALSE

\* asyncio.Lock.locked() for self.lock
lock_locked(l) == l # {}

\* the awaits of "async with self.lock:" while the lock is taken
LockPcs == {"tx_lock", "pong_lock", "ping_lock", "cl_lock"}

\* asyncio.Lock.release() by task t, at the end of its "async with" block or
\* when it is cancelled inside it: a task waiting for the lock is next to own
\* it, ahead of any task that asks later (MicroPython hands the lock over;
\* CPython's acquire() queues behind a waiter that was woken).  No effect when
\* t does not hold the lock.
lock_release(l, t) ==
    IF t \notin l THEN l
    ELSE {u \in Tasks \ {t} : task[u] \in LockPcs}

\* "async with self.lock:" by task t when the lock state is lk, then the writes
\* of one frame and the drain the task suspends in; while the lock is taken by
\* another task the task waits at lockpc
LockedWrite(t, frame, lockpc, drainpc, lk, inf) ==
    IF lock_locked(lk \ {t})
    THEN /\ task' = [task EXCEPT ![t] = lockpc]
         /\ lock' = lk
         /\ inflight' = inf
         /\ UNCHANGED wire
    ELSE /\ task' = [task EXCEPT ![t] = drainpc]
         /\ lock' = {t}
         /\ inflight' = inf \cup {t}
         /\ wire' = wire \cup {frame}

\* WebSocket.close(code) called by task t, up to its first suspension
\* (lines 180-203), when the lock state is lk.
\*   closed already: the call returns at once.
\*   called by the connection task: the ping task is cancelled (line 186): it
\*     ends with CancelledError at the await it is suspended in, leaving its
\*     async with block if it is inside one; the caller awaits it (line 187).
\*   called by the ping task itself: MicroPython's Task.cancel() raises
\*     RuntimeError for the running task, which line 188 swallows, and the close
\*     frame follows; on CPython cancel() is accepted and CancelledError is
\*     raised at the await of line 187, which ends close() and the ping task.
CloseCall(t, code, lk, inf) ==
    IF closed
    THEN /\ task' = [task EXCEPT ![t] = IF t = "ping" THEN "done" ELSE "handler"]
         /\ lock' = lk
         /\ inflight' = inf
         /\ UNCHANGED <<closed, closing, wire>>
    ELSE /\ closed' = TRUE
         /\ closing' = [closing EXCEPT ![t] = [code |-> code]]
         /\ IF t = "conn"
            THEN /\ task' = [task EXCEPT !["conn"] = "cl_await_ping",
                                         !["ping"] = "cancelled"]
                 /\ lock' = lock_release(lk, "ping")
                 /\ inflight' = inf \ {"ping"}
                 /\ UNCHANGED wire
            ELSE IF runtime = "micropython"
                 THEN LockedWrite(t, Frame("close", code), "cl_lock", "cl_drain", lk, inf)
                 ELSE /\ task' = [task EXCEPT ![t] = "cancelled"]
                      /\ lock' = lk
                      /\ inflight' = inf
                      /\ UNCHANGED wire

\* the receive() call in progress ends with the given outcome
RxReturns(outcome) ==
    IF rx = None THEN rx
    ELSE IF rx.ret = "pending" THEN [rx EXCEPT !.ret = outcome] ELSE rx

\* WebSocket.accept succeeded (lines 59-65): the 101 is out, the ping task is
\* created and _handle_websocket calls the route handler
WsStart ==
    /\ task["conn"] = "off"
    /\ \E r \in Runtimes : runtime' = r
    /\ task' = [task EXCEPT !["conn"] = "handler", !["ping"] = "sleep"]
    /\ UNCHANGED <<closed, lock, overdue, closing, wire, inflight, sock, rx, ops, since_pong, peer>>
    /\ UNCHANGED notWsVars

\* time goes by without a pong being read: the clock passes last_pong plus
\* twice the ping interval, which takes two sleeps of the ping loop at least
TimePasses ==
    /\ task["conn"] \notin {"off", "ended"}
    /\ ~overdue
    /\ since_pong >= 2
    /\ overdue' = TRUE
    /\ UNCHANGED <<runtime, closed, lock, task, closing, wire, inflight, sock, rx, ops, since_pong, peer>>
    /\ UNCHANGED notWsVars

\* the route handler calls receive(): lines 98-103
CallReceive ==
    /\ task["conn"] = "handler"
    /\ ops < MaxOps
    /\ ops' = ops + 1
    /\ IF closed
       THEN /\ rx' = [frame |-> "none", ret |-> "None"]
            /\ UNCHANGED task
       ELSE /\ rx' = [frame |-> "none", ret |-> "pending"]
            /\ task' = [task EXCEPT !["conn"] = "rx_read"]
    /\ UNCHANGED <<runtime, closed, lock, overdue, closing, wire, inflight, sock, since_pong, peer>>
    /\ UNCHANGED notWsVars

\* receive(), lines 103-176: the reads of one frame return, and the frame is
\* handled up to the next suspension
RxRead ==
    /\ task["conn"] = "rx_read"
    /\ \E f \in FramesRead :
       /\ since_pong' = IF f = "pong" THEN 0 ELSE since_pong
       /\ peer' = IF f = "pong" THEN [peer EXCEPT !.buffered = FALSE] ELSE peer
       /\
         CASE f = "eof" ->
                  /\ rx' = [frame |-> f, ret |-> "None"]
                  /\ task' = [task EXCEPT !["conn"] = "handler"]
                  /\ UNCHANGED <<closed, closing, lock, inflight, wire, overdue>>
           [] f \in {"error", "rsv", "toolarge", "close"} ->
                  /\ rx' = [frame |-> f, ret |-> IF closed THEN "None" ELSE "pending"]
                  /\ CloseCall("conn",
                               CASE f = "rsv" -> 1002 [] f = "toolarge" -> 1009 [] OTHER -> 1000,
                               lock, inflight)
                  /\ UNCHANGED overdue
           [] f = "pong" ->
                  /\ overdue' = FALSE
                  /\ UNCHANGED <<rx, task, closed, closing, lock, inflight, wire>>
           [] f = "ping" ->
                  /\ LockedWrite("conn", Frame("pong", 0), "pong_lock", "pong_drain",
                                 lock, inflight)
                  /\ UNCHANGED <<rx, closed, closing, overdue>>
           [] f = "text" ->
                  /\ rx' = [frame |-> f, ret |-> "payload"]
                  /\ task' = [task EXCEPT !["conn"] = "handler"]
                  /\ UNCHANGED <<closed, closing, lock, inflight, wire, overdue>>
           [] OTHER ->
                  UNCHANGED <<rx, task, closed, closing, lock, inflight, wire, overdue>>
    /\ UNCHANGED <<runtime, sock, ops>>
    /\ UNCHANGED notWsVars

\* the ping task has just written a ping (lines 30-31): the peer owes a pong
PingCounted ==
    peer' = IF task'["ping"] = "ping_drain" /\ task["ping"] # "ping_drain"
            THEN [peer EXCEPT !.owed = TRUE, !.late = @ \/ peer.owed]
            ELSE peer

\* the peer answers the ping it received with a pong
PeerPong ==
    /\ peer.owed
    /\ sock = "open"
    /\ peer' = [peer EXCEPT !.owed = FALSE, !.buffered = TRUE]
    /\ UNCHANGED <<runtime, closed, lock, overdue, task, closing, wire, inflight, sock, rx,
                   ops, since_pong>>
    /\ UNCHANGED notWsVars

\* a task waiting for self.lock gets it and writes its frame
LockAcquired(t) ==
    /\ task[t] \in LockPcs
    /\ ~lock_locked(lock \ {t})
    /\ CASE task[t] = "tx_lock" ->
                LockedWrite(t, Frame("data", 0), "tx_lock", "tx_drain", lock, inflight)
         [] task[t] = "pong_lock" ->
                LockedWrite(t, Frame("pong", 0), "pong_lock", "pong_drain", lock, inflight)
         [] task[t] = "ping_lock" ->
                LockedWrite(t, Frame("ping", 0), "ping_lock", "ping_drain", lock, inflight)
         [] OTHER ->
                LockedWrite(t, Frame("close", closing[t].code), "cl_lock", "cl_drain",
                            lock, inflight)
    /\ PingCounted
    /\ UNCHANGED <<runtime, closed, overdue, closing, sock, rx, ops, since_pong>>
    /\ UNCHANGED notWsVars

\* receive(), lines 154-155 and 174-176: the drain of the pong returns and the
\* loop reads on, or it raises and "except Exception" calls close()
PongDrain ==
    /\ task["conn"] = "pong_drain"
    /\ \E o \in {"ok", "raise"} :
         IF o = "ok"
         THEN /\ task' = [task EXCEPT !["conn"] = "rx_read"]
              /\ lock' = lock_release(lock, "conn")
              /\ inflight' = inflight \ {"conn"}
              /\ UNCHANGED <<closed, closing, wire, rx>>
         ELSE /\ CloseCall("conn", 1000, lock_release(lock, "conn"), inflight \ {"conn"})
              /\ rx' = IF closed THEN RxReturns("None") ELSE rx
    /\ UNCHANGED <<runtime, overdue, sock, ops, since_pong, peer>>
    /\ UNCHANGED notWsVars

\* the route handler calls send(data): lines 69-92
CallSend ==
    /\ task["conn"] = "handler"
    /\ ops < MaxOps
    /\ ops' = ops + 1
    /\ IF closed
       THEN UNCHANGED <<task, lock, inflight, wire>>
       ELSE LockedWrite("conn", Frame("data", 0), "tx_lock", "tx_drain", lock, inflight)
    /\ UNCHANGED <<runtime, closed, overdue, closing, sock, rx, since_pong, peer>>
    /\ UNCHANGED notWsVars

\* send(), lines 92-94: the drain returns, or it raises and closed is set
TxDrain ==
    /\ task["conn"] = "tx_drain"
    /\ \E o \in {"ok", "raise"} : closed' = (closed \/ o = "raise")
    /\ task' = [task EXCEPT !["conn"] = "handler"]
    /\ lock' = lock_release(lock, "conn")
    /\ inflight' = inflight \ {"conn"}
    /\ UNCHANGED <<runtime, overdue, closing, wire, sock, rx, ops, since_pong, peer>>
    /\ UNCHANGED notWsVars

\* the route handler calls close()
CallClose ==
    /\ task["conn"] = "handler"
    /\ ops < MaxOps
    /\ ops' = ops + 1
    /\ CloseCall("conn", 1000, lock, inflight)
    /\ UNCHANGED <<runtime, overdue, sock, rx, since_pong, peer>>
    /\ UNCHANGED notWsVars

\* close(), line 187 in the connection task: the cancelled ping task has ended
\* and the await raises its CancelledError, which leaves close(), receive(),
\* the route handler and _handle_websocket (microserver.py line 364 catches
\* Exception only) and reaches the finally clause of _handle_request
CloseAwaitPing ==
    /\ task["conn"] = "cl_await_ping"
    /\ task["ping"] = "cancelled"
    /\ task' = [task EXCEPT !["conn"] = "fin_drain"]
    /\ rx' = RxReturns("raised")
    /\ UNCHANGED <<runtime, closed, lock, overdue, closing, wire, inflight, sock, ops, since_pong, peer>>
    /\ UNCHANGED notWsVars

\* close(), lines 203-214: the drain of the close frame returns and the task
\* waits for the peer's close frame, or it raises and the finally clause closes
\* the writer
CloseDrain(t) ==
    /\ task[t] = "cl_drain"
    /\ \E o \in {"ok", "raise"} :
         IF o = "ok"
         THEN /\ task' = [task EXCEPT ![t] = "cl_wait"]
              /\ UNCHANGED sock
         ELSE /\ task' = [task EXCEPT ![t] = "cl_wait_closed"]
              /\ sock' = "closed"
    /\ lock' = lock_release(lock, t)
    /\ inflight' = inflight \ {t}
    /\ UNCHANGED <<runtime, closed, overdue, closing, wire, rx, ops, since_pong, peer>>
    /\ UNCHANGED notWsVars

\* close(), lines 207-214: the peer's close frame arrives, the stream ends or
\* the five seconds pass; the writer is closed
CloseWait(t) ==
    /\ task[t] = "cl_wait"
    /\ task' = [task EXCEPT ![t] = "cl_wait_closed"]
    /\ sock' = "closed"
    /\ UNCHANGED <<runtime, closed, lock, overdue, closing, wire, inflight, rx, ops, since_pong, peer>>
    /\ UNCHANGED notWsVars

\* close(), lines 215-217: wait_closed returns or raises; close() returns, to
\* the route handler (through receive(), which returns None) or to _ping_loop,
\* which breaks
CloseReturns(t) ==
    /\ task[t] = "cl_wait_closed"
    /\ task' = [task EXCEPT ![t] = IF t = "ping" THEN "done" ELSE "handler"]
    /\ rx' = IF t = "conn" THEN RxReturns("None") ELSE rx
    /\ UNCHANGED <<runtime, closed, lock, overdue, closing, wire, inflight, sock, ops, since_pong, peer>>
    /\ UNCHANGED notWsVars

\* _ping_loop, lines 24-32: the sleep is over, ping_interval seconds after it
\* began.  A frame that is readable while the connection task is suspended in
\* reader.read is read before a whole interval has gone by.
PingWakes ==
    /\ task["ping"] = "sleep"
    /\ ~(task["conn"] = "rx_read" /\ peer.buffered)
    /\ since_pong' = IF since_pong < 2 THEN since_pong + 1 ELSE since_pong
    /\ IF closed
       THEN /\ task' = [task EXCEPT !["ping"] = "done"]
            /\ UNCHANGED <<lock, inflight, wire>>
       ELSE LockedWrite("ping", Frame("ping", 0), "ping_lock", "ping_drain", lock, inflight)
    /\ PingCounted
    /\ UNCHANGED <<runtime, closed, overdue, closing, sock, rx, ops>>
    /\ UNCHANGED notWsVars

\* _ping_loop, lines 32-40 and 23: the drain of the ping returns or raises
\* (close with 1006); then the pong deadline is tested (close with 1002) and
\* the loop goes on while the connection is not closed
PingDrain ==
    /\ task["ping"] = "ping_drain"
    /\ \E o \in {"ok", "raise"} :
         IF o = "raise"
         THEN CloseCall("ping", 1006, lock_release(lock, "ping"), inflight \ {"ping"})
         ELSE IF overdue
              THEN CloseCall("ping", 1002, lock_release(lock, "ping"), inflight \ {"ping"})
              ELSE /\ task' = [task EXCEPT !["ping"] = IF closed THEN "done" ELSE "sleep"]
                   /\ lock' = lock_release(lock, "ping")
                   /\ inflight' = inflight \ {"ping"}
                   /\ UNCHANGED <<closed, closing, wire>>
    /\ UNCHANGED <<runtime, overdue, sock, rx, ops, since_pong, peer>>
    /\ UNCHANGED notWsVars

\* the route handler returns or raises (microserver.py lines 362-365):
\* _handle_websocket returns, _handle_request returns at line 293 and its
\* finally clause starts
HandlerEnds ==
    /\ task["conn"] = "handler"
    /\ task' = [task EXCEPT !["conn"] = "fin_drain"]
    /\ UNCHANGED <<runtime, closed, lock, overdue, closing, wire, inflight, sock, rx, ops, since_pong, peer>>
    /\ UNCHANGED notWsVars

\* microserver.py lines 346-350: the drain returns and the writer is closed, or
\* it raises and the close is skipped
FinDrain ==
    /\ task["conn"] = "fin_drain"
    /\ \E o \in {"ok", "raise"} :
         IF o = "ok"
         THEN /\ task' = [task EXCEPT !["conn"] = "fin_wait_closed"]
              /\ sock' = "closed"
         ELSE /\ task' = [task EXCEPT !["conn"] = "ended"]
              /\ UNCHANGED sock
    /\ UNCHANGED <<runtime, closed, lock, overdue, closing, wire, inflight, rx, ops, since_pong, peer>>
    /\ UNCHANGED notWsVars

\* microserver.py lines 348-351: the teardown is over, the slot is released
FinWaitClosed ==
    /\ task["conn"] = "fin_wait_closed"
    /\ task' = [task EXCEPT !["conn"] = "ended"]
    /\ UNCHANGED <<runtime, closed, lock, overdue, closing, wire, inflight, sock, rx, ops, since_pong, peer>>
    /\ UNCHANGED notWsVars

(***************************************************************************)
(* Streaming response bodies (microserver.py, _send_streaming_body and     *)
(* _write_chunk).  A chunk the body produces is bytes or str; a byte is a  *)
(* string token, and the bytes of a str are its UTF-8 encoding.            *)
(***************************************************************************)
CR == "CR"
LF == "LF"

\* n copies of the byte b
Rep(b, n) == [i \in 1..n |-> b]

\* the chunks a body may produce: bytes of every length up to MaxChunkLen,
\* bytes that look like framing, and str chunks with and without a character
\* outside ASCII; the empty bytes and the empty str are among them
Chunks ==
    {[type |-> "bytes", data |-> Rep("a", n)] : n \in 0..MaxChunkLen}
    \cup {[type |-> "bytes", data |-> <<CR, LF>>],
          [type |-> "bytes", data |-> <<"0", CR, LF, CR, LF>>]}
    \cup {[type |-> "str", data |-> <<>>],
          [type |-> "str", data |-> <<"e-acute">>],
          [type |-> "str", data |-> <<"1", "e-acute">>]}

\* the bodies: every sequence of at most MaxChunks chunks
Bodies == UNION {[1..n -> Chunks] : n \in 0..MaxChunks}

\* str.encode(): one byte for an ASCII character, two for U+00E9
RECURSIVE encode(_)
encode(chars) ==
    IF chars = <<>> THEN <<>>
    ELSE (IF Head(chars) = "e-acute" THEN <<"c3", "a9">> ELSE <<Head(chars)>>)
             \o encode(Tail(chars))

\* the bytes of a chunk, lines 453-454
ChunkBytes(chunk) ==
    IF chunk.type = "str" THEN encode(chunk.data) ELSE chunk.data

HexDigits == <<"0", "1", "2", "3", "4", "5", "6", "7", "8", "9",
               "a", "b", "c", "d", "e", "f">>

\* a plausible slip: the size is formatted in decimal, f"{len(chunk)}"
RECURSIVE size_dec(_)
size_dec(n) ==
    IF n < 10 THEN <<HexDigits[n + 1]>>
    ELSE size_dec(n \div 10) \o <<HexDigits[(n % 10) + 1]>>

\* line 457: f"{len(chunk):x}", lower-case hexadecimal without leading zeros
RECURSIVE size_hex(_)
size_hex(n) ==
    IF n < 16 THEN <<HexDigits[n + 1]>>
    ELSE size_hex(n \div 16) \o <<HexDigits[(n % 16) + 1]>>

\* what _write_chunk hands to writer.write (lines 450-464): nothing for a chunk
\* that is falsy, else size, CRLF, the bytes, CRLF in one write
_write_chunk(chunk) ==
    IF chunk.data = <<>>
    THEN <<>>
    ELSE LET bytes == ChunkBytes(chunk)
         IN size_hex(Len(bytes)) \o <<CR, LF>> \o bytes \o <<CR, LF>>

\* _send_response reached _send_streaming_body with some body; line 434 wrote
\* the Transfer-Encoding header and the blank line that ends the header block
StreamStart ==
    /\ spc = "idle"
    /\ \E b \in Bodies : body' = b
    /\ produced' = <<>>
    /\ out' = <<>>
    /\ spc' = "iter"
    /\ UNCHANGED notStreamVars

\* lines 436-441: the body produces its next chunk and _write_chunk writes it;
\* the drain of line 465 returns, or raises and ends the response
StreamChunk ==
    /\ spc = "iter"
    /\ body # <<>>
    /\ produced' = Append(produced, Head(body))
    /\ body' = Tail(body)
    /\ out' = out \o _write_chunk(Head(body))
    /\ \E o \in {"ok", "raise"} :
         spc' = IF o = "raise" /\ Head(body).data # <<>> THEN "failed" ELSE "iter"
    /\ UNCHANGED notStreamVars

\* line 442: the body is exhausted and the last chunk is written
StreamEnd ==
    /\ spc = "iter"
    /\ body = <<>>
    /\ out' = out \o <<"0", CR, LF, CR, LF>>
    /\ spc' = "done"
    /\ UNCHANGED <<body, produced>>
    /\ UNCHANGED notStreamVars

(***************************************************************************)
(* Static files (microserver.py, mount_static and send_file; utils.py,     *)
(* unquote; http.py, Request.__init__).  A string is a sequence of         *)
(* characters; a request target is the mount prefix followed by pieces.    *)
(***************************************************************************)
\* mount_static(url_path, dir_path) as the application called it
static_url_path == <<"/", "s">>
static_dir_path == <<"/", "w">>

\* what a request target is put together from after the mount prefix: plain
\* segments, dots, separators, a query mark and percent escapes, complete,
\* cut short and doubly encoded
Pieces == { <<"/">>, <<".">>, <<".", ".">>, <<"a">>, <<"?">>, <<"%">>,
            <<"%", "2">>, <<"%", "2", "e">>, <<"%", "2", "E">>, <<"%", "2", "f">>,
            <<"%", "2", "5">>, <<"e">> }

RECURSIVE Concat(_)
Concat(ss) == IF ss = <<>> THEN <<>> ELSE Head(ss) \o Concat(Tail(ss))

\* the targets of the requests the static route receives
Targets ==
    {static_url_path \o Concat(ps) : ps \in UNION {[1..n -> Pieces] : n \in 0..MaxPieces}}

\* str.split(sep), for a separator of one character
RECURSIVE split(_, _, _, _)
split(s, sep, acc, cur) ==
    IF s = <<>> THEN Append(acc, cur)
    ELSE IF Head(s) = sep THEN split(Tail(s), sep, Append(acc, cur), <<>>)
    ELSE split(Tail(s), sep, acc, Append(cur, Head(s)))

\* the value of a hexadecimal digit, or -1
HexDigitValue(c) ==
    CASE c = "0" -> 0 [] c = "1" -> 1 [] c = "2" -> 2 [] c = "3" -> 3 [] c = "4" -> 4
      [] c = "5" -> 5 [] c = "6" -> 6 [] c = "7" -> 7 [] c = "8" -> 8 [] c = "9" -> 9
      [] c \in {"a", "A"} -> 10 [] c \in {"b", "B"} -> 11 [] c \in {"c", "C"} -> 12
      [] c \in {"d", "D"} -> 13 [] c \in {"e", "E"} -> 14 [] c \in {"f", "F"} -> 15
      [] OTHER -> -1

\* int(h, 16) succeeds for the characters h (no sign, blank or prefix here)
IsHex(h) == h # <<>> /\ \A i \in 1..Len(h) : HexDigitValue(h[i]) >= 0

\* int(h, 16)
RECURSIVE int16(_)
int16(h) ==
    IF h = <<>> THEN 0
    ELSE 16 * int16(SubSeq(h, 1, Len(h) - 1)) + HexDigitValue(h[Len(h)])

\* the code points of the characters the targets are written with
Ascii ==
    37 :> "%" @@ 38 :> "&" @@ 46 :> "." @@ 47 :> "/" @@ 50 :> "2" @@ 51 :> "3" @@
    53 :> "5" @@ 54 :> "6" @@ 61 :> "=" @@ 63 :> "?" @@ 68 :> "D" @@ 69 :> "E" @@
    70 :> "F" @@ 97 :> "a" @@ 98 :> "b" @@ 101 :> "e" @@ 102 :> "f" @@ 115 :> "s" @@
    119 :> "w"

HexUpper == <<"0", "1", "2", "3", "4", "5", "6", "7", "8", "9",
              "A", "B", "C", "D", "E", "F">>

\* chr(v) for the code points two hexadecimal digits can name: the character
\* itself where the targets use it, and a name for any other one
chr ==
    [v \in 0..255 |->
        IF v \in DOMAIN Ascii THEN Ascii[v]
        ELSE "U+00" \o HexUpper[(v \div 16) + 1] \o HexUpper[(v % 16) + 1]]

\* utils.unquote, lines 64-70: the items after each "%"
RECURSIVE unquote_items(_)
unquote_items(items) ==
    IF items = <<>> THEN <<>>
    ELSE LET item == Head(items)
             h == SubSeq(item, 1, IF Len(item) < 2 THEN Len(item) ELSE 2)
         IN (IF IsHex(h)
             THEN <<chr[int16(h)]>> \o SubSeq(item, 3, Len(item))
             ELSE <<"%">> \o item)
            \o unquote_items(Tail(items))

\* utils.unquote
unquote(string) ==
    IF string = <<>> THEN <<>>
    ELSE LET res == split(string, "%", <<>>, <<>>)
         IN IF Len(res) = 1 THEN string
            ELSE res[1] \o unquote_items(Tail(res))

\* Request.__init__, http.py lines 98-99 and 119: the path up to the first "?"
RequestPath(path) == split(path, "?", <<>>, <<>>)[1]

\* the first index at which sub occurs in s, or 0
FindSub(s, sub) ==
    LET at == {i \in 1..(Len(s) - Len(sub) + 1) : SubSeq(s, i, i + Len(sub) - 1) = sub}
    IN IF at = {} THEN 0 ELSE CHOOSE i \in at : \A j \in at : i <= j

\* s.replace(old, new, 1)
replace1(s, old, new) ==
    LET i == FindSub(s, old)
    IN IF i = 0 THEN s
       ELSE SubSeq(s, 1, i - 1) \o new \o SubSeq(s, i + Len(old), Len(s))

\* a plausible slip: only a leading ".." is refused
is_forbidden_leading(file_path) == FindSub(file_path, <<".", ".">>) = 1

\* line 149: ".." in file_path
is_forbidden(file_path) == FindSub(file_path, <<".", ".">>) # 0

\* static_handler for the request line's target (microserver.py line 254,
\* http.py lines 98-99, microserver.py lines 147-158): the resolved path, the
\* 403, or os.stat and its outcome: 404, or the streaming response of send_file
StaticHandler ==
    /\ sfile = None
    /\ \E raw \in Targets, exists \in BOOLEAN :
         LET path == RequestPath(unquote(raw))
             file_path == replace1(path, static_url_path, static_dir_path)
         IN sfile' = [target |-> raw,
                      file_path |-> file_path,
                      stat |-> IF is_forbidden(file_path) THEN None ELSE [path |-> file_path],
                      opened |-> None,
                      status |-> IF is_forbidden(file_path) THEN 403
                                 ELSE IF exists THEN 200 ELSE 404,
                      body |-> IF ~is_forbidden(file_path) /\ exists
                               THEN [filename |-> file_path] ELSE None]
    /\ UNCHANGED notStaticVars

\* lines 164-167: _send_streaming_body iterates the body of the response and
\* file_gen opens the file
StaticSend ==
    /\ sfile # None
    /\ sfile.body # None
    /\ sfile.opened = None
    /\ sfile' = [sfile EXCEPT !.opened = [path |-> sfile.body.filename]]
    /\ UNCHANGED notStaticVars

(***************************************************************************)
(* Request parsing (microserver.py, _handle_request lines 227-351,         *)
(* _handle_websocket, _create_request): one admitted connection, read line *)
(* by line.  ppc names the await the task is suspended at:                 *)
(*   idle (not connected), readline (line 234), headers (line 265), body   *)
(*   (line 392), handler (line 301), send (the drain of _send_response at  *)
(*   lines 305-309), send_error (the drain of an error response),          *)
(*   ws_accept (websocket.py line 60), ws_handler (line 363), finally      *)
(*   (line 346), done                                                      *)
(***************************************************************************)
_MAX_HEADERS == 50
max_body_size == 1048576

\* the WebSocket routes the application registered, and another path
ws_routes == {"/ws"}
LinePaths == {"/", "/ws"}

\* header names as the peer may spell them, and str.lower() of each
HeaderNames == {"Content-Length", "content-length", "Connection", "CONNECTION",
                "Upgrade", "Sec-WebSocket-Key"}
lower(name) ==
    CASE name \in {"Content-Length", "content-length"} -> "content-length"
      [] name \in {"Connection", "CONNECTION"} -> "connection"
      [] name = "Upgrade" -> "upgrade"
      [] name = "Sec-WebSocket-Key" -> "sec-websocket-key"
      [] OTHER -> name

\* the values the peer may send for a header
HeaderValues(name) ==
    CASE lower(name) = "content-length" -> {"2", "abc", "-1", "9999999"}
      [] lower(name) = "connection" -> {"keep-alive", "close"}
      [] lower(name) = "upgrade" -> {"websocket"}
      [] OTHER -> {"key"}

\* the well-formed header lines: a token, ":", a value
HeaderLines ==
    UNION {{[name |-> n, value |-> v] : v \in HeaderValues(n)} : n \in HeaderNames}

\* int(s) for the Content-Length values: the number, or ValueError
int(s) ==
    CASE s = "2" -> [ok |-> TRUE, n |-> 2]
      [] s = "-1" -> [ok |-> TRUE, n |-> -1]
      [] s = "9999999" -> [ok |-> TRUE, n |-> 9999999]
      [] OTHER -> [ok |-> FALSE, n |-> 0]

\* dict.get(key, default)
get(d, key, default) == IF key \in DOMAIN d THEN d[key] ELSE default

\* d[key] = value
setitem(d, key, value) == [k \in DOMAIN d \cup {key} |-> IF k = key THEN value ELSE d[k]]

\* nothing of a request was read yet
NothingHeard == [first |-> EmptyDict, complete |-> FALSE, error |-> "none", timeout |-> "none"]
NotUpgraded == [r101 |-> FALSE, ping |-> FALSE, handler |-> FALSE]

\* the response _send_response writes for an error: Connection: close
\* (keep_alive=False at every such call, also by default at lines 356-358)
ErrorResponse(status) == SentResponse(status, FALSE, 0)

\* the keep-alive loop is left (break, return or an exception caught at lines
\* 321-342): the finally clause starts
PLeave == ppc' = "finally"

\* an error response is written by _send_response, which then drains
PError(status) ==
    /\ answered' = ErrorResponse(status)
    /\ ppc' = "send_error"

\* the listener accepted the socket and the connection was admitted
PAccept ==
    /\ ppc = "idle"
    /\ ppc' = "readline"
    /\ UNCHANGED <<pcount, target, headers, header_count, heard, body_read,
                   answered, request, upgraded, pwriter>>
    /\ UNCHANGED notParseVars

\* lines 231-254: the wait for the request line ends
\*   timeout: TimeoutError (line 235), eof: b"", too_long: more than
\*   _MAX_REQUEST_LINE bytes, few_tokens: fewer than two tokens, ok: a method and
\*   a path, ECONNRESET: the read raises OSError
PReadLine ==
    /\ ppc = "readline"
    /\ \E o \in {"timeout", "eof", "too_long", "few_tokens", "ok", "ECONNRESET"} :
         CASE o = "timeout" ->
                  /\ heard' = [heard EXCEPT !.timeout = "request_line"]
                  /\ PLeave
                  /\ UNCHANGED <<target, answered>>
           [] o = "too_long" ->
                  /\ heard' = [heard EXCEPT !.error = "request_line_too_long"]
                  /\ PError(414)
                  /\ UNCHANGED target
           [] o = "few_tokens" ->
                  /\ heard' = [heard EXCEPT !.error = "malformed_request_line"]
                  /\ PLeave
                  /\ UNCHANGED <<target, answered>>
           [] o = "ok" ->
                  /\ \E path \in LinePaths : target' = [path |-> path]
                  /\ ppc' = "headers"
                  /\ UNCHANGED <<heard, answered>>
           [] OTHER ->
                  /\ PLeave
                  /\ UNCHANGED <<target, heard, answered>>
    /\ UNCHANGED <<pcount, headers, header_count, body_read, request, upgraded, pwriter>>
    /\ UNCHANGED notParseVars

\* lines 286-298, 353-359 and 367-407 up to the next suspension: the Connection
\* preference, the WebSocket upgrade with WebSocket.accept, the Content-Length
\* checks of _create_request
AfterHeaders ==
    IF lower(get(headers, "upgrade", "")) = "websocket" /\ target.path \in ws_routes
    THEN IF get(headers, "sec-websocket-key", "") = ""
         THEN /\ PError(400)
              /\ UNCHANGED <<body_read, request, upgraded>>
         ELSE /\ answered' = SwitchingProtocols
              /\ upgraded' = [upgraded EXCEPT !.r101 = TRUE]
              /\ ppc' = "ws_accept"
              /\ UNCHANGED <<body_read, request>>
    ELSE LET content_length_header == get(headers, "content-length", "")
             content_length == IF content_length_header # ""
                               THEN int(content_length_header)
                               ELSE [ok |-> TRUE, n |-> 0]
         IN IF ~content_length.ok
            THEN /\ PError(400)
                 /\ UNCHANGED <<body_read, request, upgraded>>
            ELSE IF content_length.n > 0
            THEN IF content_length.n > max_body_size
                 THEN /\ PError(413)
                      /\ UNCHANGED <<body_read, request, upgraded>>
                 ELSE /\ body_read' = [content_length |-> content_length.n, got |-> -1]
                      /\ ppc' = "body"
                      /\ UNCHANGED <<answered, request, upgraded>>
            ELSE /\ request' = [headers |-> headers, body |-> None]
                 /\ ppc' = "handler"
                 /\ UNCHANGED <<answered, body_read, upgraded>>

\* lines 260-284: one round of the header loop: the count test, then the wait
\* for a header line ends
\*   blank: b"\r\n", eof: b"", oversize: more than _MAX_HEADER_SIZE bytes,
\*   skipped: no ":", an invalid token or undecodable bytes, a header line,
\*   timeout: TimeoutError out of wait_for (caught at line 321), ECONNRESET
PHeaders ==
    /\ ppc = "headers"
    /\ IF header_count >= _MAX_HEADERS
       THEN /\ PError(431)
            /\ UNCHANGED <<headers, header_count, heard, body_read, request, upgraded>>
       ELSE \/ \E o \in {"blank", "eof"} :
                 /\ AfterHeaders
                 /\ heard' = [heard EXCEPT !.complete = TRUE]
                 /\ UNCHANGED <<headers, header_count>>
            \/ \E o \in {"oversize", "skipped", "timeout", "ECONNRESET"} :
                 /\ CASE o = "oversize" ->
                             /\ heard' = [heard EXCEPT !.error = "header_too_large"]
                             /\ PError(431)
                      [] o = "skipped" ->
                             UNCHANGED <<heard, ppc, answered>>
                      [] o = "timeout" ->
                             /\ heard' = [heard EXCEPT !.timeout = "headers"]
                             /\ PLeave
                             /\ UNCHANGED answered
                      [] OTHER ->
                             /\ PLeave
                             /\ UNCHANGED <<heard, answered>>
                 /\ UNCHANGED <<headers, header_count, body_read, request, upgraded>>
            \/ \E line \in HeaderLines :
                 LET key == lower(line.name)
                 IN /\ headers' = setitem(headers, key, line.value)
                    /\ header_count' = header_count + 1
                    /\ heard' = IF key \in DOMAIN heard.first THEN heard
                                ELSE [heard EXCEPT !.first = setitem(@, key, line.value)]
                    /\ UNCHANGED <<ppc, answered, body_read, request, upgraded>>
    /\ UNCHANGED <<pcount, target, pwriter>>
    /\ UNCHANGED notParseVars

\* lines 391-407: reader.read(content_length) returns at most content_length
\* bytes (none at the end of the stream) and the Request is built, or the wait
\* times out (408), or the read raises
PBody ==
    /\ ppc = "body"
    /\ \/ \E got \in 0..body_read.content_length :
            /\ body_read' = [body_read EXCEPT !.got = got]
            /\ request' = [headers |-> headers, body |-> [len |-> got]]
            /\ ppc' = "handler"
            /\ UNCHANGED <<heard, answered>>
       \/ /\ heard' = [heard EXCEPT !.timeout = "body"]
          /\ PError(408)
          /\ UNCHANGED <<body_read, request>>
       \/ /\ PLeave
          /\ UNCHANGED <<heard, answered, body_read, request>>
    /\ UNCHANGED <<pcount, target, headers, header_count, upgraded, pwriter>>
    /\ UNCHANGED notParseVars

\* lines 287-288 and 304
p_should_keep_alive ==
    /\ lower(get(headers, "connection", "")) = "keep-alive"
    /\ pcount < MaxKeepAlive - 1

\* lines 300-309: the pipeline returns a response and _send_response writes it,
\* or a middleware raises (line 340)
PHandler ==
    /\ ppc = "handler"
    /\ \/ /\ answered' = SentResponse(200, p_should_keep_alive, MaxKeepAlive - pcount - 1)
          /\ ppc' = "send"
       \/ /\ PLeave
          /\ UNCHANGED answered
    /\ UNCHANGED <<pcount, target, headers, header_count, heard, body_read,
                   request, upgraded, pwriter>>
    /\ UNCHANGED notParseVars

\* lines 309-319 and 231: the drain returns, the request is counted and, for a
\* keep-alive response, the loop reads the next request; or the drain raises
PSend ==
    /\ ppc = "send"
    /\ \/ IF p_should_keep_alive
          THEN /\ pcount' = pcount + 1
               /\ ppc' = "readline"
               /\ target' = None
               /\ headers' = EmptyDict
               /\ header_count' = 0
               /\ heard' = NothingHeard
               /\ body_read' = None
               /\ answered' = None
               /\ request' = None
          ELSE /\ pcount' = pcount + 1
               /\ PLeave
               /\ UNCHANGED <<target, headers, header_count, heard, body_read,
                              answered, request>>
       \/ /\ PLeave
          /\ UNCHANGED <<pcount, target, headers, header_count, heard, body_read,
                         answered, request>>
    /\ UNCHANGED <<upgraded, pwriter>>
    /\ UNCHANGED notParseVars

\* the drain of an error response returns (break / return) or raises
PSendError ==
    /\ ppc = "send_error"
    /\ PLeave
    /\ UNCHANGED <<pcount, target, headers, header_count, heard, body_read,
                   answered, request, upgraded, pwriter>>
    /\ UNCHANGED notParseVars

\* websocket.py lines 60-65, microserver.py lines 361-363: the drain of the 101
\* returns, the ping task is created and the route handler is called; or the
\* drain raises
PWsAccept ==
    /\ ppc = "ws_accept"
    /\ \/ /\ upgraded' = [upgraded EXCEPT !.ping = TRUE, !.handler = TRUE]
          /\ ppc' = "ws_handler"
       \/ /\ PLeave
          /\ UNCHANGED upgraded
    /\ UNCHANGED <<pcount, target, headers, header_count, heard, body_read,
                   answered, request, pwriter>>
    /\ UNCHANGED notParseVars

\* lines 362-365 and 293: the WebSocket handler returns or raises
PWsHandler ==
    /\ ppc = "ws_handler"
    /\ PLeave
    /\ UNCHANGED <<pcount, target, headers, header_count, heard, body_read,
                   answered, request, upgraded, pwriter>>
    /\ UNCHANGED notParseVars

\* lines 343-351: the drain returns and the writer is closed, or the drain
\* raises and close() is skipped
PFinally ==
    /\ ppc = "finally"
    /\ \E o \in {"ok", "raise"} : pwriter' = IF o = "ok" THEN "closed" ELSE pwriter
    /\ ppc' = "done"
    /\ UNCHANGED <<pcount, target, headers, header_count, heard, body_read,
                   answered, request, upgraded>>
    /\ UNCHANGED notParseVars

(***************************************************************************)
(* The query string (microserver.py line 254, http.py lines 89-122): the   *)
(* target of one request line and the Request built from it.               *)
(***************************************************************************)
\* what a target with a query string is put together from: plain characters,
\* the delimiters, the delimiters and the percent sign percent-encoded, and
\* two hexadecimal digits
QueryPieces == { <<"a">>, <<"b">>, <<"?">>, <<"&">>, <<"=">>,
                 <<"%", "3", "F">>, <<"%", "2", "6">>, <<"%", "3", "D">>,
                 <<"%", "2", "5">>, <<"3", "D">> }

\* the targets received
QueryTargets ==
    {<<"/">> \o Concat(ps) : ps \in UNION {[1..n -> QueryPieces] : n \in 0..MaxPieces}}

\* s.split(sep, 1) for a separator that occurs in s, and pair[:eq_pos],
\* pair[eq_pos + 1:] of http.py lines 112-114
split_once(s, sep) ==
    LET i == FindSub(s, <<sep>>)
    IN <<SubSeq(s, 1, i - 1), SubSeq(s, i + 1, Len(s))>>

\* http.py lines 103-119: the pairs between the "&", in order; a later pair
\* with the same key replaces the earlier one
RECURSIVE parse_pairs(_, _)
parse_pairs(pairs, query_params) ==
    IF pairs = <<>> THEN query_params
    ELSE LET pair == Head(pairs)
         IN parse_pairs(Tail(pairs),
                IF Contains(pair, "=")
                THEN setitem(query_params, unquote(split_once(pair, "=")[1]),
                             unquote(split_once(pair, "=")[2]))
                ELSE IF pair # <<>> THEN setitem(query_params, unquote(pair), <<>>)
                ELSE query_params)

\* Request.__init__: path and query_params
Request(path) ==
    IF Contains(path, "?")
    THEN [path |-> split_once(path, "?")[1],
          query_params |-> parse_pairs(split(split_once(path, "?")[2], "&", <<>>, <<>>),
                                       EmptyDict)]
    ELSE [path |-> path, query_params |-> EmptyDict]

\* microserver.py line 254 and _create_request line 368: the Request of a
\* request line with this target
QueryRequest ==
    /\ qreq = None
    /\ \E raw \in QueryTargets :
         LET built == Request(unquote(raw))
         IN qreq' = [target |-> raw, path |-> built.path,
                     query_params |-> built.query_params]
    /\ UNCHANGED notQueryVars

\* the connection reads its next request line
QueryNext ==
    /\ qreq # None
    /\ qreq' = None
    /\ UNCHANGED notQueryVars

(***************************************************************************)
(* _Semaphore used as a blocking semaphore (microserver.py lines 24-53):   *)
(* tasks enter and leave `async with sem`.  A task runs from one await to  *)
(* the next without interruption; the only await is event.wait() of line   *)
(* 42.  Event.set() makes the waiting task runnable; the task resumes      *)
(* later, when the scheduler picks it, after any task that was already     *)
(* runnable or that runs in between.                                       *)
(***************************************************************************)
\* the tasks that share the semaphore
SemTasks == {"t1", "t2", "t3"}

\* list.remove-like helper for the history: s without its first x
RECURSIVE Without(_, _)
Without(s, x) ==
    IF s = <<>> THEN <<>>
    ELSE IF Head(s) = x THEN Tail(s)
    ELSE <<Head(s)>> \o Without(Tail(s), x)

\* the loop of __aenter__ (lines 38-43), entered at the call or when the task
\* resumes from event.wait()
AenterLoop(t) ==
    IF semaphore._value <= 0
    THEN /\ semaphore' = [semaphore EXCEPT !._waiters = Append(@, t)]
         /\ event_set' = [event_set EXCEPT ![t] = FALSE]
         /\ sem_pc' = [sem_pc EXCEPT ![t] = "wait"]
         /\ arrived' = IF \E i \in 1..Len(arrived) : arrived[i] = t
                       THEN arrived ELSE Append(arrived, t)
    ELSE /\ semaphore' = aenter(semaphore)
         /\ sem_pc' = [sem_pc EXCEPT ![t] = "holding"]
         /\ arrived' = Without(arrived, t)
         /\ UNCHANGED event_set

\* a task calls __aenter__
SemEnter(t) ==
    /\ sem_pc[t] = "out"
    /\ acquires < MaxAcquires
    /\ acquires' = acquires + 1
    /\ AenterLoop(t)
    /\ UNCHANGED notSemVars

\* a task whose event was set resumes from event.wait() (line 42)
SemResume(t) ==
    /\ sem_pc[t] = "wait"
    /\ event_set[t]
    /\ AenterLoop(t)
    /\ UNCHANGED acquires
    /\ UNCHANGED notSemVars

\* a holder leaves the block: __aexit__ (lines 46-53)
SemExit(t) ==
    /\ sem_pc[t] = "holding"
    /\ semaphore' = aexit(semaphore)
    /\ event_set' = IF semaphore._waiters # <<>>
                     THEN [event_set EXCEPT ![Head(semaphore._waiters)] = TRUE]
                     ELSE event_set
    /\ sem_pc' = [sem_pc EXCEPT ![t] = "out"]
    /\ UNCHANGED <<arrived, acquires>>
    /\ UNCHANGED notSemVars

(***************************************************************************)
(* The state after construction (MicroServer.__init__, Router.__init__)    *)
(* and the three state machines.                                           *)
(***************************************************************************)
\* the state after construction, with Router(not_found_cache_size=size)
Constructed(size) ==
    /\ _conn_semaphore = _Semaphore(MaxConns)
    /\ _active_connections = 0
    /\ _warned_capacity = FALSE
    /\ pc = [c \in Conns |-> "idle"]
    /\ request_count = [c \in Conns |-> 0]
    /\ keep_alive = [c \in Conns |-> FALSE]
    /\ writer = [c \in Conns |-> FreshWriter]
    /\ hasRead = [c \in Conns |-> FALSE]
    /\ idle = [c \in Conns |-> 0]
    /\ dispatched = [c \in Conns |-> FALSE]
    /\ middlewares = <<>>
    /\ _handler = None
    /\ builds = 0
    /\ ret = None
    /\ req = None
    /\ route_map = EmptyDict
    /\ static_routes = <<>>
    /\ _static_trie = StaticTrieInit
    /\ _dyn_tries = EmptyDict
    /\ _not_found_cache = {}
    /\ _cache_size = size
    /\ result = None
    /\ nadds = 0
    /\ dyn_routes = {}
    /\ late = {}
    /\ phase = "setup"
    /\ runtime = "unset"
    /\ closed = FALSE
    /\ lock = {}
    /\ overdue = FALSE
    /\ task = [t \in Tasks |-> IF t = "conn" THEN "off" ELSE "none"]
    /\ closing = [t \in Tasks |-> None]
    /\ wire = {}
    /\ inflight = {}
    /\ sock = "open"
    /\ rx = None
    /\ ops = 0
    /\ since_pong = 0
    /\ peer = [owed |-> FALSE, buffered |-> FALSE, late |-> FALSE]
    /\ body = <<>>
    /\ produced = <<>>
    /\ out = <<>>
    /\ spc = "idle"
    /\ sfile = None
    /\ ppc = "idle"
    /\ pcount = 0
    /\ target = None
    /\ headers = EmptyDict
    /\ header_count = 0
    /\ heard = NothingHeard
    /\ body_read = None
    /\ answered = None
    /\ request = None
    /\ upgraded = NotUpgraded
    /\ pwriter = "open"
    /\ qreq = None
    /\ semaphore = _Semaphore(1)
    /\ sem_pc = [t \in SemTasks |-> "out"]
    /\ event_set = [t \in SemTasks |-> FALSE]
    /\ arrived = <<>>
    /\ acquires = 0

Init == Constructed(CacheSize)

Next ==
    \E c \in Conns :
        \/ Arrive(c)
        \/ HandleRequestReject(c)
        \/ RejectClose(c)
        \/ HandleRequestAdmit(c)
        \/ ReadLine(c)
        \/ Headers(c)
        \/ Body(c)
        \/ HandlerDone(c)
        \/ Send(c)
        \/ Sleep(c)
        \/ SendError(c)
        \/ EmfileSend(c)
        \/ WsAccept(c)
        \/ WsHandler(c)
        \/ DrainOk(c)
        \/ DrainFails(c)
        \/ WaitClosed(c)

Spec == Init /\ [][Next]_vars

NextRouter ==
    \/ \E method \in Methods, path \in ExactPaths \cup DynPatterns : RouterAdd(method, path)
    \/ \E url_path \in StaticPrefixes : RouterAddStatic(url_path)
    \/ \E method \in Methods, path \in RequestPaths : RouterMatch(method, path)

\* a router of every configured cache size, 0 included
InitRouter == \E size \in 0..CacheSize : Constructed(size)

SpecRouter == InitRouter /\ [][NextRouter]_vars

NextSem ==
    \E t \in SemTasks :
        \/ SemEnter(t)
        \/ SemResume(t)
        \/ SemExit(t)

SpecSem == Init /\ [][NextSem]_vars

NextQuery ==
    \/ QueryRequest
    \/ QueryNext

SpecQuery == Init /\ [][NextQuery]_vars

NextPipeline ==
    \/ \E m \in Middlewares : add_middleware(m)
    \/ GetHandlerCall
    \/ StartRequest
    \/ MiddlewareCallsNext
    \/ MiddlewareShortCircuits
    \/ TerminalDispatch
    \/ MiddlewareReturns
    \/ MiddlewareRaises
    \/ FinishRequest
    \/ PipelineRaised

SpecPipeline == Init /\ [][NextPipeline]_vars

NextWs ==
    \/ WsStart
    \/ TimePasses
    \/ CallReceive
    \/ RxRead
    \/ PongDrain
    \/ CallSend
    \/ TxDrain
    \/ CallClose
    \/ CloseAwaitPing
    \/ PingWakes
    \/ PingDrain
    \/ PeerPong
    \/ HandlerEnds
    \/ FinDrain
    \/ FinWaitClosed
    \/ \E t \in Tasks : LockAcquired(t)
    \/ \E t \in Tasks : CloseDrain(t)
    \/ \E t \in Tasks : CloseWait(t)
    \/ \E t \in Tasks : CloseReturns(t)

SpecWs == Init /\ [][NextWs]_vars

NextStream ==
    \/ StreamStart
    \/ StreamChunk
    \/ StreamEnd

SpecStream == Init /\ [][NextStream]_vars

NextStatic ==
    \/ StaticHandler
    \/ StaticSend

SpecStatic == Init /\ [][NextStatic]_vars

NextParse ==
    \/ PAccept
    \/ PReadLine
    \/ PHeaders
    \/ PBody
    \/ PHandler
    \/ PSend
    \/ PSendError
    \/ PWsAccept
    \/ PWsHandler
    \/ PFinally

SpecParse == Init /\ [][NextParse]_vars

(***************************************************************************)
(* Admission control and teardown (checked under Spec)                     *)
(***************************************************************************)
\* the awaits inside the try block of line 230: the task holds a slot and is
\* counted by _active_connections
InTryPcs == {"readline", "headers", "body", "handler", "send", "sleep",
             "send_error", "emfile_send", "ws_accept", "ws_handler"}

\* the awaits inside the async with block of line 219: the task holds a slot
HoldingPcs == InTryPcs \cup {"drain", "wait_closed"}

Holding == {c \in Conns : pc[c] \in HoldingPcs}
InTry == {c \in Conns : pc[c] \in InTryPcs}
AllEnded == \A c \in Conns : pc[c] \in {"idle", "rejected", "done"}

\* C1: in every reachable state the connections admitted and not yet torn down
\* (those holding a slot of _conn_semaphore, and those counted by
\* _active_connections) are at most max_conns, and the semaphore never goes
\* below zero.
C1_AdmittedNeverExceedMaxConns ==
    /\ Cardinality(Holding) <= MaxConns
    /\ _active_connections <= MaxConns
    /\ _active_connections >= 0
    /\ _conn_semaphore._value >= 0

\* the limit is reached and one more connection is being refused
C1_Witness ==
    /\ Cardinality(Holding) = MaxConns
    /\ \E c \in Conns : pc[c] = "reject_drain"

\* C2: every admitted connection gives its slot back however it ends: the
\* semaphore value always is max_conns minus the connections still inside the
\* async with block, _active_connections always is the number of connections
\* inside the try block, and once every connection has ended the value is
\* max_conns again, the counter is 0 and the next connection is admitted.
C2_SlotReleasedOnEveryExit ==
    /\ _conn_semaphore._value = MaxConns - Cardinality(Holding)
    /\ _active_connections = Cardinality(InTry)
    /\ AllEnded => /\ _conn_semaphore._value = MaxConns
                   /\ _active_connections = 0
                   /\ ~(_conn_semaphore._value = 0)

\* every connection has ended, one through the whole teardown and one through
\* the failing drain of the teardown, and the semaphore is full again
C2_Witness ==
    /\ AllEnded
    /\ \E c \in Conns : pc[c] = "done" /\ writer[c].closed
    /\ \E c \in Conns : pc[c] = "done" /\ ~writer[c].closed
    /\ _conn_semaphore._value = MaxConns

\* the state part of C3: a refused connection has been answered 503 with
\* Retry-After, has read nothing and dispatched nothing, and is closed when its
\* task has ended
C3_RejectedState ==
    \A c \in Conns :
        pc[c] \in {"reject_drain", "rejected"} =>
            /\ writer[c].sent # None
            /\ writer[c].sent.status = 503
            /\ writer[c].sent.retry_after
            /\ ~hasRead[c]
            /\ ~dispatched[c]
            /\ pc[c] = "rejected" => writer[c].closed

\* the step part of C3: a task that starts while the semaphore value is 0 goes to
\* the refusal, a refused task only goes on to its end, and neither step
\* changes the semaphore or _active_connections
C3_RejectedStep ==
    \A c \in Conns :
        /\ (pc[c] = "new" /\ _conn_semaphore._value = 0 /\ pc'[c] # "new") =>
               /\ pc'[c] = "reject_drain"
               /\ _conn_semaphore' = _conn_semaphore
               /\ _active_connections' = _active_connections
        /\ (pc[c] = "reject_drain" /\ pc'[c] # "reject_drain") =>
               /\ pc'[c] = "rejected"
               /\ _conn_semaphore' = _conn_semaphore
               /\ _active_connections' = _active_connections

\* C3: a connection that arrives while no slot is free is answered 503 Service
\* Unavailable with Retry-After and closed; it never reads or dispatches a
\* request and leaves the semaphore value and _active_connections unchanged.
C3_RejectedUntouched == [](C3_RejectedState) /\ [][C3_RejectedStep]_vars

\* a refused connection whose task has ended: 503 sent, writer closed
C3_Witness ==
    \E c \in Conns :
        /\ pc[c] = "rejected"
        /\ writer[c].closed
        /\ writer[c].sent = RejectResponse
        /\ _conn_semaphore._value = 0

\* C4: for every admitted connection, on every exit path of _handle_request
\* (also when draining the writer fails), the writer is closed before the task
\* ends.
C4_WriterClosedOnEveryExit ==
    \A c \in Conns : pc[c] = "done" => writer[c].closed

\* the awaits a task passes once its keep-alive loop is over
AfterLoopPcs == {"send_error", "emfile_send", "drain", "wait_closed"}

\* the response last written on connection c has this status
SentStatus(c, status) ==
    IF writer[c].sent = None THEN FALSE ELSE writer[c].sent.status = status

\* the state part of C11: a 413 carries Connection: close and the task that
\* wrote it is past its keep-alive loop
C11_State ==
    \A c \in Conns :
        SentStatus(c, 413) =>
            /\ writer[c].sent.connection = "close"
            /\ pc[c] \in {"send_error", "drain", "wait_closed"}

\* the step part of C11: the 413 is written by the step that parsed the
\* headers, which neither reads the body nor calls the pipeline, and a task
\* past its loop never goes back to reading or dispatching
C11_Step ==
    \A c \in Conns :
        /\ (writer'[c].sent # writer[c].sent /\ writer'[c].sent # None
               /\ writer'[c].sent.status = 413) =>
               /\ pc[c] = "headers"
               /\ pc'[c] = "send_error"
               /\ dispatched'[c] = dispatched[c]
               /\ _handler' = _handler
        /\ pc[c] \in AfterLoopPcs => pc'[c] \in AfterLoopPcs \cup {"done"}

C14_State ==
    \A c \in Conns :
        /\ pc[c] = "send" =>
               IF keep_alive[c] /\ request_count[c] + 1 < MaxKeepAlive
               THEN /\ writer[c].sent.connection = "keep-alive"
                    /\ writer[c].sent.keep_alive_header
               ELSE /\ writer[c].sent.connection = "close"
                    /\ ~writer[c].sent.keep_alive_header
        /\ pc[c] = "sleep" => writer[c].sent.connection = "keep-alive"
        /\ (writer[c].sent # None /\ writer[c].sent.connection = "close") =>
               pc[c] \in {"send"} \cup AfterLoopPcs

\* the step part of C14: after a response with Connection: close the task
\* leaves the loop; after the yield that follows a keep-alive response it
\* reads the next request line
C14_Step ==
    \A c \in Conns :
        /\ (pc[c] = "send" /\ writer[c].sent.connection = "close") =>
               pc'[c] \in {"send"} \cup AfterLoopPcs
        /\ pc[c] = "send" => pc'[c] \in {"send", "sleep"} \cup AfterLoopPcs
        /\ pc[c] = "sleep" => pc'[c] \in {"sleep", "readline"}

\* C14: a response is written with Connection: keep-alive and a Keep-Alive
\* header exactly when the request carried Connection: keep-alive and the
\* request budget of the connection is not exhausted by this request, otherwise
\* with Connection: close and no Keep-Alive header; after a close response no
\* further request is read, after a keep-alive response the next one is read.
C14_KeepAliveHeaders == [](C14_State) /\ [][C14_Step]_vars

\* a second request is being read after a keep-alive response
C14_Witness ==
    \E c \in Conns :
        /\ pc[c] = "headers"
        /\ request_count[c] = 1
        /\ writer[c].sent # None
        /\ writer[c].sent.connection = "keep-alive"

\* C15: on one connection at most max_keep_alive_requests requests are
\* dispatched, and the response to the last permitted one carries Connection:
\* close.  (request_count is the number of requests answered before the
\* current one.)
C15_RequestBudget ==
    \A c \in Conns :
        /\ request_count[c] <= MaxKeepAlive
        /\ pc[c] \in {"handler", "send"} => request_count[c] + 1 <= MaxKeepAlive
        /\ (pc[c] = "send" /\ request_count[c] + 1 = MaxKeepAlive) =>
               writer[c].sent.connection = "close"

\* the last permitted request asked for keep-alive and is answered with close
C15_Witness ==
    \E c \in Conns :
        /\ pc[c] = "send"
        /\ request_count[c] + 1 = MaxKeepAlive
        /\ keep_alive[c]
        /\ writer[c].sent.connection = "close"

\* the awaits of the keep-alive loop (lines 231-319)
InLoopPcs == {"readline", "headers", "body", "handler", "send", "sleep"}

\* the Keep-Alive header last written on the connection of a task in the loop
Advertised(c) ==
    pc[c] \in InLoopPcs /\ writer[c].sent # None /\ writer[c].sent.keep_alive_header

\* the requests the server will still dispatch on the connection after the
\* response written last, if the client keeps asking for keep-alive: the budget
\* of max_keep_alive_requests less the requests answered (request_count counts
\* a response once its drain has returned)
FurtherDispatches(c) ==
    MaxKeepAlive - request_count[c] - (IF pc[c] = "send" THEN 1 ELSE 0)

\* the state part of C39
C39_State ==
    \A c \in Conns :
        Advertised(c) =>
            /\ writer[c].sent.max >= 1
            /\ writer[c].sent.max = FurtherDispatches(c)

\* the step part of C39: after a response advertising max=N the next request
\* is read; the next response advertises less, and nothing when N was 1
C39_Step ==
    \A c \in Conns :
        /\ (Advertised(c) /\ pc[c] = "sleep") => pc'[c] \in {"sleep", "readline"}
        /\ (Advertised(c) /\ pc[c] = "handler" /\ pc'[c] = "send") =>
               /\ writer'[c].sent.keep_alive_header =>
                      writer'[c].sent.max < writer[c].sent.max
               /\ writer[c].sent.max = 1 => ~writer'[c].sent.keep_alive_header

\* C39: whenever a response advertises "Keep-Alive: max=N", N equals the number
\* of further requests the server will still dispatch on that connection if
\* the client keeps asking for keep-alive; N is at least 1 and strictly
\* decreases from one response to the next on the same connection.
C39_KeepAliveMax == [](C39_State) /\ [][C39_Step]_vars

\* the second response of a connection advertises one request less than the
\* first did
C39_Witness ==
    \E c \in Conns :
        /\ pc[c] = "send"
        /\ request_count[c] = 1
        /\ writer[c].sent.keep_alive_header
        /\ writer[c].sent.max = MaxKeepAlive - 2

\* the task of connection c left the loop because the wait for a request line
\* timed out
IdleTimedOut(c) == idle[c] > 0

\* C40: once a response has advertised "Keep-Alive: timeout=T", the server
\* closes the connection for want of a new request line only after the
\* connection has been idle for at least T seconds
C40_IdleForAdvertisedTimeout ==
    \A c \in Conns :
        (/\ IdleTimedOut(c)
         /\ writer[c].closed
         /\ writer[c].sent # None
         /\ writer[c].sent.status # 101
         /\ writer[c].sent.keep_alive_header)
            => idle[c] >= writer[c].sent.timeout

(***************************************************************************)
(* The middleware pipeline (checked under SpecPipeline)                    *)
(***************************************************************************)
\* the pre-logic of the first k middlewares of mws, first-added first
PreLogic(mws, k) == [i \in 1..k |-> <<"pre", mws[i]>>]

\* the post-logic of the first k middlewares of mws, last-added first
PostLogic(mws, k) == [i \in 1..k |-> <<"post", mws[k + 1 - i]>>]

\* every middleware lets the request through
PassThroughRun(mws) ==
    PreLogic(mws, Len(mws)) \o << <<"dispatch">> >> \o PostLogic(mws, Len(mws))

\* the k-th added middleware answers by itself
ShortCircuitRun(mws, k) ==
    PreLogic(mws, k - 1) \o << <<"short", mws[k]>> >> \o PostLogic(mws, k - 1)

\* the complete runs of a request through the middlewares mws
OrderedRuns(mws) ==
    {PassThroughRun(mws)} \cup {ShortCircuitRun(mws, k) : k \in 1..Len(mws)}

IsPrefix(s, t) == Len(s) <= Len(t) /\ SubSeq(t, 1, Len(s)) = s

\* C9: for middlewares added in the order m1..mn a request runs m1's pre-logic,
\* then m2's ... mn's, then the terminal dispatch, then the post-logic of
\* mn ... m1; a middleware that answers by itself keeps every later-added
\* middleware and the dispatcher from running.  (A request cut short by an
\* exception has run a prefix of that order.)
C9_CompositionOrderIsCallOrder ==
    IF req = None THEN TRUE
    ELSE /\ \E run \in OrderedRuns(req.added) : IsPrefix(req.trace, run)
         /\ (req.state = "done" /\ req.raised = None) =>
                req.trace \in OrderedRuns(req.added)

\* a finished request that went through logging, then cors, then the dispatcher
C9_Witness ==
    IF req = None THEN FALSE
    ELSE /\ req.state = "done"
         /\ req.added = <<"logging", "cors">>
         /\ req.trace = << <<"pre", "logging">>, <<"pre", "cors">>, <<"dispatch">>,
                           <<"post", "cors">>, <<"post", "logging">> >>

\* the middlewares a chain wraps, outermost first
RECURSIVE Wrapped(_)
Wrapped(chain) ==
    IF chain.kind = "final" THEN <<>>
    ELSE <<chain.middleware>> \o Wrapped(chain.next_handler)

\* the state part of C10: a cached chain wraps exactly self.middlewares, in order
C10_CacheState ==
    _handler # None => Wrapped(_handler.chain) = middlewares

\* the step part of C10: add_middleware resets the cache; a _get_handler call
\* returns the cached object, which wraps the middlewares added so far; without
\* an add_middleware the cached object stays the same, so that a second call
\* returns the identical object
C10_CacheStep ==
    /\ middlewares' # middlewares => _handler' = None
    /\ ret' # ret => /\ ret' # None
                     /\ ret' = _handler'
                     /\ Wrapped(ret'.chain) = middlewares
    /\ (_handler # None /\ middlewares' = middlewares) => _handler' = _handler
    /\ (ret # None /\ ret = _handler /\ middlewares' = middlewares) => ret' = ret

\* C10: after any sequence of add_middleware and _get_handler calls,
\* _get_handler returns a chain wrapping exactly the middlewares added so far,
\* in order; two calls with no add_middleware between them return the identical
\* object; every add_middleware resets the cached handler to None.
C10_HandlerCache == [](C10_CacheState) /\ [][C10_CacheStep]_vars

\* _get_handler returned the chain rebuilt after two registrations
C10_Witness ==
    /\ ret # None
    /\ ret = _handler
    /\ ret.id >= 2
    /\ Len(middlewares) = 2
    /\ Wrapped(ret.chain) = middlewares

\* the request is over and, while it ran, the route handler or a middleware
\* raised
RaisedInPipeline ==
    IF req = None THEN FALSE
    ELSE /\ req.state = "done"
         /\ \/ req.raised # None
            \/ IF req.hres = None THEN FALSE ELSE req.hres.kind = "raise"

\* C12: for every request that reaches dispatch, if the route handler or any
\* middleware of the pipeline raises, the exception is caught and the client
\* receives a 500 response on that connection.
C12_RaiseBecomes500 ==
    RaisedInPipeline => (req.written # None /\ req.written = Response(500))

\* the route handler of the running request returned a value that is not a
\* Response
NonResponseReturned ==
    IF req = None THEN FALSE
    ELSE IF req.hres = None THEN FALSE
    ELSE req.hres.kind = "value"

\* C13: if a matched handler returns a value that is not a Response, the
\* terminal dispatch yields a 500 Response in its place, and what flows back
\* through the chain to the serializer is never the returned value.
C13_NonResponseBecomes500 ==
    NonResponseReturned =>
        /\ req.result # None => req.result = Response(500)
        /\ req.written # None => req.written = Response(500)
        /\ (req.state = "done" /\ req.raised = None) => req.written = Response(500)

\* a request through a middleware whose handler returned a non-Response value
\* has been answered
C13_Witness ==
    /\ NonResponseReturned
    /\ req.state = "done"
    /\ req.written = Response(500)
    /\ Len(req.added) >= 1

(***************************************************************************)
(* The router (checked under SpecRouter)                                   *)
(***************************************************************************)
\* the (method, path) of the match call just made
Asked == <<result.method, result.path>>

\* C5: if match(m, P) missed while no route for P was registered and add(m, P, h)
\* is called afterwards, the next match(m, P) returns h: a route registered
\* after the misses (while P sat in the not-found cache) is resolved.
C5_LateRouteResolved ==
    IF result = None THEN TRUE
    ELSE (Asked \in late /\ Asked \in DOMAIN route_map) =>
             result.ret.handler = route_map[Asked]

\* C6: with a fixed route table, match(m, P) returns the registered handler
\* whenever a route for (m, P) is registered, whatever match calls came before
\* (a miss on P under another method included).
C6_RegisteredRouteNeverDenied ==
    IF result = None THEN TRUE
    ELSE (phase = "fixed" /\ Asked \in DOMAIN route_map) =>
             result.ret.handler = route_map[Asked]

\* the prefix s of t, in whole path segments
IsSegmentPrefix(s, t) == Len(s) <= Len(t) /\ \A i \in 1..Len(s) : s[i] = t[i]

\* the handlers of the static mounts whose prefix matches path
StaticHandlersFor(path) ==
    {static_routes[i][2] : i \in {j \in 1..Len(static_routes) :
        IsSegmentPrefix(_parts(static_routes[j][1]), _parts(path))}}

\* the handlers registered with a capture pattern
CaptureHandlers == {HandlerOf("route", r[1], r[2]) : r \in dyn_routes}

\* some capture pattern registered for the method matches the path segment by
\* segment
CaptureApplies(method, path) ==
    \E r \in dyn_routes :
        /\ r[1] = method
        /\ Len(_parts(r[2])) = Len(_parts(path))
        /\ \A i \in 1..Len(_parts(path)) :
               IsCapture(_parts(r[2])[i]) \/ _parts(r[2])[i] = _parts(path)[i]

\* more than one kind of route applies to (method, path)
SeveralKindsApply(method, path) ==
    \/ <<method, path>> \in DOMAIN route_map /\ StaticHandlersFor(path) # {}
    \/ <<method, path>> \in DOMAIN route_map /\ CaptureApplies(method, path)
    \/ StaticHandlersFor(path) # {} /\ CaptureApplies(method, path)

\* C7: when more than one kind of route applies to a path, match returns the
\* exact (method, path) handler if one is registered, otherwise the handler of a
\* matching static mount, and a capture handler only when neither applies.
C7_ExactThenStaticThenCapture ==
    IF result = None THEN TRUE
    ELSE SeveralKindsApply(result.method, result.path) =>
         /\ Asked \in DOMAIN route_map => result.ret.handler = route_map[Asked]
         /\ (Asked \notin DOMAIN route_map /\ StaticHandlersFor(result.path) # {}) =>
                result.ret.handler \in StaticHandlersFor(result.path)
         /\ result.ret.handler \in CaptureHandlers =>
                (Asked \notin DOMAIN route_map /\ StaticHandlersFor(result.path) = {})

\* the handlers of the matching static mounts that have at least one segment
\* (_StaticTrie.match never returns the handler of a mount at "/", see C31)
SegmentMountHandlersFor(path) ==
    {static_routes[i][2] : i \in {j \in 1..Len(static_routes) :
        /\ _parts(static_routes[j][1]) # <<>>
        /\ IsSegmentPrefix(_parts(static_routes[j][1]), _parts(path))}}

\* the order of C7 as Router._internal_match alone decides it, without the
\* not-found cache in front of it, for the mounts _StaticTrie.match can return
InternalMatchOrder ==
    \A method \in Methods, path \in RequestPaths :
        LET found == _internal_match(method, path)
        IN /\ <<method, path>> \in DOMAIN route_map =>
                  found.handler = route_map[<<method, path>>]
           /\ (<<method, path>> \notin DOMAIN route_map
                  /\ SegmentMountHandlersFor(path) # {}) =>
                  found.handler \in SegmentMountHandlersFor(path)
           /\ found.handler \in CaptureHandlers =>
                  (<<method, path>> \notin DOMAIN route_map
                     /\ SegmentMountHandlersFor(path) = {})

\* an exact route, a static mount and a capture pattern all apply to one path
InternalMatchOrderCase ==
    \E method \in Methods, path \in RequestPaths :
        /\ <<method, path>> \in DOMAIN route_map
        /\ SegmentMountHandlersFor(path) # {}
        /\ CaptureApplies(method, path)

\* the pattern pat matches the path segment by segment
SegmentsMatch(pat, parts) ==
    /\ Len(pat) = Len(parts)
    /\ \A i \in 1..Len(pat) : IsCapture(pat[i]) \/ pat[i] = parts[i]

\* the capture names of pat mapped to the segments at the same positions
PositionalParams(pat, parts) ==
    LET caps == {i \in 1..Len(pat) : IsCapture(pat[i])}
    IN [name \in {param_name(pat[i]) : i \in caps} |->
           parts[CHOOSE i \in caps : param_name(pat[i]) = name]]

\* C8: when a request path matches a registered capture pattern segment by
\* segment (and no other pattern of the method), the trie match returns that
\* pattern's handler with path_params mapping exactly the pattern's capture
\* names to the segments at their positions, whatever other patterns sharing a
\* prefix were registered before or after it.
C8_CaptureParamsPositional ==
    \A r \in dyn_routes, path \in RequestPaths :
        LET pat == _parts(r[2])
            parts == _parts(path)
        IN (/\ SegmentsMatch(pat, parts)
            /\ \A r2 \in dyn_routes :
                   (r2[1] = r[1] /\ r2 # r) => ~SegmentsMatch(_parts(r2[2]), parts))
           => RouteTrieMatch(_dyn_tries[r[1]], <<>>, parts, EmptyDict)
                  = [handler |-> HandlerOf("route", r[1], r[2]),
                     params |-> PositionalParams(pat, parts)]

\* the registered static mounts whose prefix is a prefix of path, in whole
\* segments (a mount at "/" has no segment and is a prefix of every path)
MountsFor(path) ==
    {j \in 1..Len(static_routes) :
        IsSegmentPrefix(_parts(static_routes[j][1]), _parts(path))}

\* the mounts of MountsFor(path) with the longest prefix
LongestMountsFor(path) ==
    {j \in MountsFor(path) :
        \A k \in MountsFor(path) :
            Len(_parts(static_routes[k][1])) <= Len(_parts(static_routes[j][1]))}

\* C31: for any set of prefixes registered with add_static and any request
\* path, the static match returns the handler of the longest registered prefix
\* (in whole segments) that is a prefix of the path, a mount at "/" being a
\* prefix of every path, and returns none only when no registered prefix is a
\* prefix of the path.
C31_LongestPrefixWins ==
    \A path \in RequestPaths :
        LET found == StaticTrieMatch(_static_trie, <<>>, _parts(path), None)
        IN IF MountsFor(path) = {} THEN found = None
           ELSE \E j \in LongestMountsFor(path) : found = static_routes[j][2]

\* C32: after any sequence of Router.match calls, for every configured
\* not_found_cache_size, the not-found cache holds at most
\* not_found_cache_size paths: a miss on a full cache evicts one entry before
\* the new path is admitted.
C32_CacheBounded == Cardinality(_not_found_cache) <= _cache_size

(***************************************************************************)
(* Query string claims, checked under SpecQuery                            *)
(***************************************************************************)
\* the raw pairs of a raw query string, each decoded once
RECURSIVE DecodedOnce(_, _)
DecodedOnce(pairs, params) ==
    IF pairs = <<>> THEN params
    ELSE LET pair == Head(pairs)
         IN DecodedOnce(Tail(pairs),
                IF Contains(pair, "=")
                THEN setitem(params, unquote(split_once(pair, "=")[1]),
                             unquote(split_once(pair, "=")[2]))
                ELSE IF pair # <<>> THEN setitem(params, unquote(pair), <<>>)
                ELSE params)

\* the path of a raw target: what precedes its first literal "?", decoded once
PathOfTarget(raw) ==
    unquote(IF Contains(raw, "?") THEN split_once(raw, "?")[1] ELSE raw)

\* the parameters of a raw target: the raw text after the first literal "?"
\* split at the literal "&" and at the first literal "=" of each pair, each
\* key and value decoded once
ParamsOfTarget(raw) ==
    IF Contains(raw, "?")
    THEN DecodedOnce(split(split_once(raw, "?")[2], "&", <<>>, <<>>), EmptyDict)
    ELSE EmptyDict

\* C34: the path/query split and the key/value splits are made on the literal
\* "?", "&" and "=" of the raw target and each key and value is percent-decoded
\* exactly once, so an encoded delimiter (%3F, %26, %3D) or an encoded percent
\* sign (%25) never changes which path and which parameters the handler sees.
C34_SplitThenDecodeOnce ==
    qreq # None =>
        /\ qreq.path = PathOfTarget(qreq.target)
        /\ qreq.query_params = ParamsOfTarget(qreq.target)

(***************************************************************************)
(* _Semaphore claims, checked under SpecSem                                *)
(***************************************************************************)
\* the value stays between 0 and the initial maximum
SemValueInRange == semaphore._value >= 0 /\ semaphore._value <= semaphore._max_value

\* a step in which task t acquires the semaphore
Acquires(t) == sem_pc[t] # "holding" /\ sem_pc'[t] = "holding"

\* while tasks are suspended in acquire, the task that acquires is the one that
\* has waited longest
SemArrivalOrder ==
    \A t \in SemTasks : (Acquires(t) /\ arrived # <<>>) => t = Head(arrived)

\* C33: _Semaphore grants slots in arrival order: when tasks are suspended in
\* acquire because the value is 0, each release lets the longest-waiting task
\* acquire, and a task that arrives later never takes the freed slot ahead of
\* an already-waiting task; the value never goes below 0 or above its initial
\* maximum when every release is paired with an acquire.
C33_ArrivalOrder == []SemValueInRange /\ [][SemArrivalOrder]_vars

(***************************************************************************)
(* WebSocket claims, checked under SpecWs                                  *)
(***************************************************************************)

\* the receive() call that read a frame with a reserved bit set is over
RsvReceiveOver == rx # None /\ rx.frame = "rsv" /\ rx.ret # "pending"

\* C16: for every frame read by WebSocket.receive whose header has a reserved
\* bit set, receive returns None (never the payload), a close frame with code
\* 1002 is sent, and the connection ends in the closed state.
C16_RsvRejected ==
    RsvReceiveOver =>
        /\ rx.ret = "None"
        /\ Frame("close", 1002) \in wire
        /\ closed

\* the keepalive loop called close() itself and the ping task has ended
PingLoopClosed ==
    /\ closing["ping"] # None
    /\ task["ping"] \in {"done", "cancelled"}

C18_PingTaskCancelledAtTeardown ==
    (task["conn"] = "ended" /\ sock = "closed")
        => task["ping"] \in {"done", "cancelled"}

\* the awaits inside an "async with self.lock:" block
DrainPcs == {"tx_drain", "pong_drain", "ping_drain", "cl_drain"}

\* C19: frames written by concurrent tasks never interleave: a frame is
\* written and drained while the per-connection lock is held, and at most one
\* task holds the lock at any time.
C19_WritesSerialized ==
    /\ Cardinality(lock) <= 1
    /\ inflight \subseteq lock
    /\ \A t \in Tasks : task[t] \in DrainPcs => t \in inflight

\* one task is draining its frame under the lock while the other waits for it
C19_Witness ==
    \E t \in Tasks, u \in Tasks :
        /\ t # u
        /\ task[t] \in DrainPcs
        /\ lock = {t}
        /\ task[u] \in {"tx_lock", "pong_lock", "ping_lock", "cl_lock"}

\* the awaits inside WebSocket.close
ClosePcs == {"cl_await_ping", "cl_lock", "cl_drain", "cl_wait", "cl_wait_closed"}

\* C35: every call to WebSocket.close on an open connection completes and
\* closes the writer, even if the peer never sends a close frame or the
\* close-frame write fails; a second call to close is a no-op.  Stated for the
\* calls that are over: the task that called close on the open connection has
\* left close, and the writer is closed.
C35_CloseClosesWriter ==
    \A t \in Tasks :
        (closing[t] # None /\ task[t] \notin ClosePcs) => sock = "closed"

\* a step in which some task hands a frame to the writer
WritesFrame == \E t \in Tasks : t \in inflight' /\ t \notin inflight

\* the server's close frame was written
CloseFrameWritten == \E f \in wire : f.kind = "close"

\* C36: once the server has written its close frame it writes no further frame
\* to the socket (no data frame, ping, pong reply or second close frame), under
\* any interleaving of the handler's send, receive and close calls with the
\* keepalive task.
C36_NothingAfterCloseFrame == [][CloseFrameWritten => ~WritesFrame]_vars

\* the keepalive loop closed the connection for ping timeout
ClosedForPingTimeout == closing["ping"] # None /\ closing["ping"].code = 1002

\* C37: a connection whose peer answers every server ping with a pong is never
\* closed by the keepalive loop for ping timeout, whether or not the handler is
\* calling receive() when the pongs arrive: a close for ping timeout happens
\* only after the peer left a ping unanswered for a whole ping interval.
C37_AnsweringPeerNotTimedOut == ClosedForPingTimeout => peer.late

\* C38: at any time at most one task is reading from the connection's reader:
\* the frame reads of receive() in the handler task and the reads of
\* _wait_close_frame, reached from close() called by the keepalive task, never
\* run at the same time.
C38_SingleReader == ~(task["conn"] = "rx_read" /\ task["ping"] = "cl_wait")

(***************************************************************************)
(* Chunked transfer coding, checked under SpecStream                       *)
(***************************************************************************)

\* the value of a sequence of hexadecimal digits
RECURSIVE HexValue(_)
HexValue(digits) ==
    IF digits = <<>> THEN 0
    ELSE 16 * HexValue(SubSeq(digits, 1, Len(digits) - 1))
             + (CHOOSE v \in 0..15 : HexDigits[v + 1] = digits[Len(digits)])

\* the length of the longest prefix of s without CR
RECURSIVE UpToCR(_)
UpToCR(s) ==
    IF s = <<>> \/ Head(s) = CR THEN 0 ELSE 1 + UpToCR(Tail(s))

NotChunked == [ok |-> FALSE, chunks |-> <<>>]

\* a strict decoder of the chunked coding: s must be, for each chunk, its
\* length in lower-case hexadecimal without leading zeros, CRLF, that many
\* bytes, CRLF, and then the last chunk "0" CRLF CRLF and nothing more; acc
\* collects the chunks decoded so far
RECURSIVE Dechunk(_, _)
Dechunk(s, acc) ==
    LET k == UpToCR(s)
        digits == SubSeq(s, 1, k)
        n == HexValue(digits)
    IN IF \/ k = 0
          \/ \E i \in 1..k : \A v \in 1..16 : HexDigits[v] # digits[i]
          \/ (k > 1 /\ digits[1] = "0")
          \/ Len(s) < k + 2
       THEN NotChunked
       ELSE IF s[k + 1] # CR \/ s[k + 2] # LF
       THEN NotChunked
       ELSE IF n = 0
       THEN IF s = <<"0", CR, LF, CR, LF>>
            THEN [ok |-> TRUE, chunks |-> acc]
            ELSE NotChunked
       ELSE IF Len(s) < k + 2 + n + 2
       THEN NotChunked
       ELSE IF s[k + 2 + n + 1] # CR \/ s[k + 2 + n + 2] # LF
       THEN NotChunked
       ELSE Dechunk(SubSeq(s, k + 2 + n + 3, Len(s)),
                    Append(acc, SubSeq(s, k + 3, k + 2 + n)))

\* the bytes of each chunk of a sequence of chunks
BytesOf(chunks) == [i \in 1..Len(chunks) |-> ChunkBytes(chunks[i])]

IsNonEmpty(chunk) == chunk.data # <<>>

\* C20 as stated: for a streaming body that produced c1..cn the bytes after
\* the header block are, for each produced chunk in order, its length in
\* hexadecimal, CRLF, its bytes, CRLF, then "0" CRLF CRLF, and decoding the
\* stream yields the sequence of chunks the source produced.
C20_EveryChunkFramed ==
    spc = "done" => Dechunk(out, <<>>) = [ok |-> TRUE, chunks |-> BytesOf(produced)]

\* C20 (amended): the same for the non-empty chunks the source produced, in
\* order; an empty chunk is not written.
C20_NonEmptyChunksFramed ==
    spc = "done" =>
        Dechunk(out, <<>>) =
            [ok |-> TRUE, chunks |-> BytesOf(SelectSeq(produced, IsNonEmpty))]

\* a finished stream whose body produced an empty chunk and a chunk whose
\* length takes a hexadecimal letter
C20_Witness ==
    /\ spc = "done"
    /\ \E i \in 1..Len(produced) : produced[i].data = <<>>
    /\ \E i \in 1..Len(produced) : Len(ChunkBytes(produced[i])) >= 10

(***************************************************************************)
(* Static files, checked under SpecStatic                                  *)
(***************************************************************************)

\* the path has a parent-directory segment
HasParentSegment(path) ==
    \E i \in 1..Len(split(path, "/", <<>>, <<>>)) :
        split(path, "/", <<>>, <<>>)[i] = <<".", ".">>

\* C21: the static-file handler never calls os.stat and never opens a file for
\* a resolved path with a parent-directory segment, whatever the request
\* target and its percent-encoding; such a request gets a 403.
C21_NoTraversal ==
    sfile # None =>
        /\ HasParentSegment(sfile.file_path) =>
               (sfile.stat = None /\ sfile.opened = None /\ sfile.status = 403)
        /\ sfile.stat # None => ~HasParentSegment(sfile.stat.path)
        /\ sfile.opened # None => ~HasParentSegment(sfile.opened.path)

\* a target whose parent-directory segment is written with percent escapes was
\* answered 403
C21_Witness ==
    /\ sfile # None
    /\ FindSub(sfile.target, <<".", ".">>) = 0
    /\ HasParentSegment(sfile.file_path)
    /\ sfile.status = 403

(***************************************************************************)
(* Request parsing, checked under SpecParse                                *)
(***************************************************************************)

\* C22: header names are stored case-insensitively, and when several header
\* lines carry the same name, the value the Request exposes for it (and the
\* one the server uses for Content-Length, Connection and Upgrade) is that of
\* the first such line.
C22_FirstHeaderWins ==
    /\ DOMAIN headers = DOMAIN heard.first
    /\ \A k \in DOMAIN headers : k = lower(k)
    /\ request # None =>
           \A k \in DOMAIN heard.first : request.headers[k] = heard.first[k]

\* the header block of an upgrade request to a WebSocket route ended without
\* a Sec-WebSocket-Key line
UpgradeWithoutKey ==
    /\ heard.complete
    /\ target.path \in ws_routes
    /\ get(headers, "upgrade", "") = "websocket"
    /\ "sec-websocket-key" \notin DOMAIN headers

\* C23: for an upgrade request to a registered WebSocket path without a
\* Sec-WebSocket-Key header no 101 is written, no ping task is started, the
\* WebSocket handler is not invoked, a 400 is written and the connection is
\* closed.
C23_HandshakeWithoutKey ==
    UpgradeWithoutKey =>
        /\ ~upgraded.r101 /\ ~upgraded.ping /\ ~upgraded.handler
        /\ answered = ErrorResponse(400)
        /\ ppc = "done" => pwriter = "closed"

\* the header block ended and the request is not handed to WebSocket.accept
PlainRequestRead ==
    /\ heard.complete
    /\ ~(get(headers, "upgrade", "") = "websocket" /\ target.path \in ws_routes)

\* the request carries one Content-Length value, which is v
OnlyLength(v) ==
    /\ "content-length" \in DOMAIN headers
    /\ headers["content-length"] = v
    /\ heard.first["content-length"] = v

\* the status that answers a protocol error
StatusOfError(e) ==
    CASE e = "request_line_too_long" -> 414
      [] e = "header_too_large" -> 431
      [] OTHER -> 400

Answered(status) == answered # None /\ answered = ErrorResponse(status)

\* C25: every protocol error detected while reading a request (a request line
\* with fewer than two tokens or over-long, an over-long header line, an
\* invalid Content-Length, a body over the cap) is answered with the matching
\* 4xx status before the connection is closed; none closes the connection
\* without a response.
C25_ProtocolErrorsAnswered ==
    /\ heard.error # "none" => Answered(StatusOfError(heard.error))
    /\ (PlainRequestRead /\ (OnlyLength("abc") \/ OnlyLength("-1"))) => Answered(400)
    /\ (PlainRequestRead /\ OnlyLength("9999999")) => Answered(413)

\* C26: a request whose Content-Length is not a valid length (not a decimal
\* number, or negative) is answered 400 with Connection: close and is never
\* dispatched.
C26_InvalidLengthRefused ==
    (PlainRequestRead /\ (OnlyLength("abc") \/ OnlyLength("-1"))) =>
        /\ request = None
        /\ Answered(400)
        /\ answered.connection = "close"

\* C27: a read timeout after the request line was received (in the header
\* lines or in the body) is answered 408 before the connection is closed;
\* only a timeout while waiting for a request line closes silently.
C27_TimeoutAnswered408 ==
    /\ heard.timeout \in {"headers", "body"} => Answered(408)
    /\ heard.timeout = "request_line" => answered = None

\* C28: a Request with Content-Length n > 0 within the cap is handed to the
\* pipeline with a body of exactly n bytes, never with a shorter one.
C28_BodyComplete ==
    (request # None /\ body_read # None) =>
        (request.body # None /\ request.body.len = body_read.content_length)

\* C29: a request is answered 431 only if it carries more than _MAX_HEADERS
\* valid header lines or a header line longer than _MAX_HEADER_SIZE.
C29_HeaderLimit ==
    (answered # None /\ answered.status = 431) =>
        (header_count > _MAX_HEADERS \/ heard.error = "header_too_large")

\* the receive() call that met the end of the stream or a read error is over
ReadFailureOver == rx # None /\ rx.frame \in {"eof", "error"} /\ rx.ret # "pending"

\* C24: when receive gets fewer than the two header bytes or an I/O error
\* occurs while a frame is read, receive returns None, the closed flag is set
\* and the ping task is cancelled (so that later sends write nothing).
\* Checked under SpecWs.
C24_ReadFailureCloses ==
    ReadFailureOver =>
        /\ rx.ret = "None"
        /\ closed
        /\ task["ping"] \in {"done", "cancelled"}

\* C30: if some capture pattern registered for the method matches the request
\* path segment by segment, the capture-trie match returns a handler: the
\* literal child is tried first and the capture at the same position is the
\* fallback when the literal branch leads to no handler.  Checked under
\* SpecRouter.
C30_CaptureIsFallback ==
    \A r \in dyn_routes, path \in RequestPaths :
        SegmentsMatch(_parts(r[2]), _parts(path))
            => RouteTrieMatch(_dyn_tries[r[1]], <<>>, _parts(path), EmptyDict) # None

====
